---- MODULE Spec2Model ----
(***************************************************************************)
(* The sensor control core shared by the ov6211, ox03j10 and ox03c10       *)
(* drivers (drivers/media/i2c): register transport, mode table, the        *)
(* power/streaming state machine and the control handler.                  *)
(*                                                                         *)
(* One device instance is modelled.  Each driver entry point is one        *)
(* action that runs the whole handler, followed by its return.  The bus,   *)
(* the runtime-power service, the clock/regulator services and the         *)
(* control framework are the environment: their outcomes are inputs of     *)
(* the actions, drawn from small sets.                                     *)
(*                                                                         *)
(* Specifications:                                                         *)
(*   Spec       the entry points of an attached device, one call at a time *)
(*   SpecProbe  the probe, then the entry points if it succeeded           *)
(*   SpecConc   the entry points called from two threads, step by step     *)
(*   SpecFit    find_best_fit over tables of several modes                 *)
(*   SpecTable  set_fmt and the HDR request over tables of several modes   *)
(*   SpecReg    write_reg, read_reg and write_array on their own           *)
(*   SpecPower  power requests with every outcome of the services that a   *)
(*              power-on calls                                             *)
(*   SpecFlip   the flip controls of a streaming device whose registers    *)
(*              keep what is written to them                               *)
(***************************************************************************)
EXTENDS Integers, Sequences, FiniteSets, TLC

(***************************************************************************)
(* Bounds of the model (not program constants).                            *)
(***************************************************************************)
\* A register program is long (122 and 1161 writes); the failing bus
\* transaction of an operation is drawn from the first FailWindow writes of
\* the program, its last FailWindow writes and every transaction after it.
FailWindow == 1

(***************************************************************************)
(* Program constants (the three drivers define the same values).           *)
(***************************************************************************)
REG_CTRL_MODE == 256
MODE_SW_STANDBY == 0
MODE_STREAMING == 1
REG_EXPOSURE == 13568
EXPOSURE_MIN == 4
EXPOSURE_STEP == 15
VTS_MAX == 65535
REG_ANALOG_GAIN == 13578
ANALOG_GAIN_MASK == 1023
REG_TEST_PATTERN == 24064
TEST_PATTERN_ENABLE == 128
TEST_PATTERN_DISABLE == 0
REG_VTS == 14350
MIRROR_REG == 14369
FLIP_REG == 14368
REG_DELAY == 65534
REG_NULL == 65535
REG_VALUE_08BIT == 1
OV6211_CHIP_ID == 103
OX03_CHIP_ID == 5768010
OV6211_REG_CHIP_ID == 12298
OX03_REG_CHIP_ID == 266
OX03J10_REG_CHIP_VERSION == 298
ENODEV == 19
REG_VALUE_16BIT == 2
REG_VALUE_24BIT == 3
\* errno values returned by the transport
EIO == 5
EINVAL == 22
\* margin between the frame length and the largest exposure
EXPOSURE_MARGIN == 20

Chips == {"ov6211", "ox03j10", "ox03c10"}

(***************************************************************************)
(* Fixed-width arithmetic.  A 32-bit word (u32 or int) is represented by   *)
(* the integer that has the same bit pattern read as an int: a u32 of 2^31 *)
(* or more is a negative number here.  Sums wrap around as the build       *)
(* (-fno-strict-overflow) makes them.  An s64 is a pair of two words.      *)
(***************************************************************************)
AddW(a, b) ==
  IF a >= 0 /\ b >= 0 /\ a > 2147483647 - b
  THEN (a - 2147483647 - 1) + (b - 2147483647 - 1)
  ELSE IF a < 0 /\ b < 0 /\ a < (-2147483647 - 1) - b
  THEN (a + 2147483647 + 1) + (b + 2147483647 + 1)
  ELSE a + b

NegW(a) == IF a = -2147483647 - 1 THEN a ELSE -a

SubW(a, b) == AddW(a, NegW(b))

\* a u32 widened to s64 (zero extension)
ZExt(w) == [hi |-> 0, lo |-> w]

\* an int widened to s64 (sign extension): the integer n itself
SExt(n) == [hi |-> IF n < 0 THEN -1 ELSE 0, lo |-> n]

RECURSIVE BitAnd(_, _)
RECURSIVE BitOr(_, _)
BitAnd(a, b) ==
  IF a < 0 /\ b < 0 THEN -1 - BitOr(-1 - a, -1 - b)
  ELSE IF a < 0 THEN b - BitAnd(b, -1 - a)
  ELSE IF b < 0 THEN a - BitAnd(a, -1 - b)
  ELSE IF a = 0 \/ b = 0 THEN 0
  ELSE (IF a % 2 = 1 /\ b % 2 = 1 THEN 1 ELSE 0) + 2 * BitAnd(a \div 2, b \div 2)

BitOr(a, b) ==
  IF a < 0 \/ b < 0 THEN -1 - BitAnd(-1 - a, -1 - b)
  ELSE IF a = 0 THEN b
  ELSE IF b = 0 THEN a
  ELSE (IF a % 2 = 1 \/ b % 2 = 1 THEN 1 ELSE 0) + 2 * BitOr(a \div 2, b \div 2)

(***************************************************************************)
(* Register programs.  Each entry is <<addr, val>>; REG_NULL ends a table. *)
(***************************************************************************)
\* ov6211.c, lines 147-149 (addresses and values in decimal)
ov6211_global_regs ==
  << <<REG_NULL, 0>> >>

\* ov6211.c, lines 152-276 (addresses and values in decimal)
ov6211_400x400_120fps_regs ==
  << <<259, 1>>, <<256, 0>>, <<12293, 0>>, <<12307, 18>>, <<12308, 4>>, <<12310, 16>>, <<12311, 0>>, <<12312, 0>>,
     <<12314, 0>>, <<12315, 0>>, <<12316, 0>>, <<12343, 240>>, <<12416, 1>>, <<12417, 0>>, <<12418, 1>>, <<12440, 4>>,
     <<12441, 40>>, <<12442, 6>>, <<12443, 4>>, <<12444, 0>>, <<12445, 0>>, <<12446, 1>>, <<12447, 0>>, <<12464, 10>>,
     <<12465, 2>>, <<12466, 0>>, <<12467, 50>>, <<12468, 2>>, <<12469, 5>>, <<12550, 217>>, <<13568, 0>>, <<13569, 27>>,
     <<13570, 32>>, <<13571, 7>>, <<13577, 16>>, <<13579, 16>>, <<13856, 183>>, <<13857, 5>>, <<13862, 49>>, <<13863, 64>>,
     <<13874, 163>>, <<13875, 52>>, <<13876, 64>>, <<13878, 0>>, <<13920, 128>>, <<13922, 1>>, <<13924, 240>>, <<13930, 0>>,
     <<13931, 80>>, <<13952, 244>>, <<13953, 80>>, <<13954, 0>>, <<14088, 32>>, <<14089, 64>>, <<14093, 3>>, <<14139, 2>>,
     <<14140, 8>>, <<14146, 0>>, <<14148, 22>>, <<14149, 8>>, <<14209, 252>>, <<14216, 0>>, <<14336, 0>>, <<14337, 4>>,
     <<14338, 0>>, <<14339, 4>>, <<14340, 1>>, <<14341, 155>>, <<14342, 1>>, <<14343, 155>>, <<14344, 1>>, <<14345, 144>>,
     <<14346, 1>>, <<14347, 144>>, <<14348, 5>>, <<14349, 242>>, <<14350, 1>>, <<14351, 182>>, <<14352, 0>>, <<14353, 4>>,
     <<14354, 0>>, <<14355, 4>>, <<14356, 17>>, <<14357, 17>>, <<14368, 0>>, <<14369, 0>>, <<14379, 250>>, <<14383, 4>>,
     <<14386, 0>>, <<14387, 5>>, <<14388, 0>>, <<14389, 5>>, <<14466, 4>>, <<14467, 0>>, <<14500, 16>>, <<14501, 0>>,
     <<14513, 3>>, <<15232, 0>>, <<15233, 165>>, <<15234, 16>>, <<15235, 0>>, <<15236, 8>>, <<15237, 0>>, <<15238, 1>>,
     <<15239, 0>>, <<15240, 0>>, <<15241, 0>>, <<15242, 0>>, <<15243, 5>>, <<15244, 0>>, <<15245, 0>>, <<15246, 0>>,
     <<15247, 26>>, <<15252, 5>>, <<15253, 242>>, <<15254, 240>>, <<16388, 4>>, <<16462, 1>>, <<18433, 15>>, <<18438, 15>>,
     <<18487, 67>>, <<256, 1>>, <<REG_NULL, 0>> >>

\* ox03j10.c, lines 148-150 (addresses and values in decimal)
ox03j10_global_regs ==
  << <<REG_NULL, 0>> >>

\* ox03j10.c, lines 153-168 (addresses and values in decimal)
ox03j10_1920x1536_2_lanes_regs ==
  << <<274, 5>>, <<5738, 255>>, <<769, 0>>, <<771, 0>>, <<772, 0>>, <<773, 100>>, <<774, 0>>, <<775, 9>>,
     <<8448, 7>>, <<8459, 128>>, <<18560, 193>>, <<18562, 17>>, <<18563, 17>>, <<REG_NULL, 0>> >>

\* ox03c10.c, lines 147-1339 (addresses and values in decimal)
ox03c10_global_regs ==
  << <<265, 168>>, <<266, 88>>, <<267, 3>>, <<268, 74>>, <<269, 0>>, <<270, 0>>, <<271, 0>>, <<272, 0>>,
     <<273, 0>>, <<274, 2>>, <<275, 0>>, <<276, 0>>, <<277, 0>>, <<278, 0>>, <<279, 0>>, <<280, 0>>,
     <<281, 0>>, <<282, 0>>, <<283, 0>>, <<284, 0>>, <<285, 0>>, <<286, 0>>, <<287, 1>>, <<288, 0>>,
     <<289, 0>>, <<290, 0>>, <<291, 0>>, <<292, 0>>, <<293, 0>>, <<294, 0>>, <<295, 0>>, <<296, 0>>,
     <<297, 0>>, <<298, 16>>, <<299, 68>>, <<768, 58>>, <<769, 200>>, <<770, 33>>, <<771, 4>>, <<772, 1>>,
     <<773, 104>>, <<774, 4>>, <<775, 2>>, <<776, 19>>, <<777, 3>>, <<778, 0>>, <<779, 0>>, <<780, 0>>,
     <<781, 0>>, <<782, 0>>, <<783, 0>>, <<784, 0>>, <<785, 0>>, <<786, 7>>, <<787, 0>>, <<788, 0>>,
     <<789, 0>>, <<790, 0>>, <<791, 1>>, <<792, 0>>, <<793, 0>>, <<794, 0>>, <<795, 0>>, <<796, 0>>,
     <<797, 0>>, <<798, 0>>, <<799, 0>>, <<800, 2>>, <<801, 49>>, <<802, 3>>, <<803, 4>>, <<804, 2>>,
     <<805, 82>>, <<806, 138>>, <<807, 10>>, <<808, 0>>, <<809, 0>>, <<810, 10>>, <<811, 2>>, <<812, 1>>,
     <<813, 1>>, <<814, 1>>, <<815, 0>>, <<816, 2>>, <<817, 12>>, <<818, 34>>, <<819, 49>>, <<820, 3>>,
     <<821, 0>>, <<822, 0>>, <<823, 75>>, <<824, 4>>, <<825, 8>>, <<826, 0>>, <<827, 11>>, <<828, 0>>,
     <<829, 1>>, <<830, 1>>, <<831, 1>>, <<832, 0>>, <<833, 2>>, <<834, 13>>, <<835, 0>>, <<836, 0>>,
     <<837, 0>>, <<838, 0>>, <<839, 0>>, <<840, 0>>, <<841, 0>>, <<842, 0>>, <<843, 0>>, <<844, 0>>,
     <<845, 0>>, <<846, 0>>, <<847, 0>>, <<848, 0>>, <<849, 0>>, <<850, 0>>, <<851, 0>>, <<852, 0>>,
     <<853, 0>>, <<854, 0>>, <<855, 0>>, <<856, 0>>, <<857, 0>>, <<858, 0>>, <<859, 0>>, <<860, 0>>,
     <<861, 0>>, <<862, 0>>, <<863, 0>>, <<864, 0>>, <<865, 0>>, <<866, 204>>, <<867, 12>>, <<787, 0>>,
     <<1, 1>>, <<702, 16>>, <<91, 1>>, <<792, 94>>, <<723, 0>>, <<723, 16>>, <<800, 44>>, <<787, 2>>,
     <<14080, 53>>, <<14081, 24>>, <<14082, 28>>, <<14083, 65>>, <<14084, 12>>, <<14085, 0>>, <<14086, 56>>, <<14087, 8>>,
     <<14088, 40>>, <<14089, 110>>, <<14090, 0>>, <<14091, 122>>, <<14092, 12>>, <<14093, 8>>, <<14094, 85>>, <<14095, 36>>,
     <<14096, 20>>, <<14097, 22>>, <<14098, 19>>, <<14099, 1>>, <<14100, 2>>, <<14101, 128>>, <<14102, 12>>, <<14103, 2>>,
     <<14104, 114>>, <<14105, 79>>, <<14106, 84>>, <<14107, 49>>, <<14108, 0>>, <<14109, 8>>, <<14110, 0>>, <<14111, 2>>,
     <<14112, 3>>, <<14113, 92>>, <<14114, 100>>, <<14115, 6>>, <<14116, 1>>, <<14117, 6>>, <<14118, 10>>, <<14119, 6>>,
     <<14120, 3>>, <<14121, 9>>, <<14122, 1>>, <<14123, 3>>, <<14124, 23>>, <<14125, 74>>, <<14126, 0>>, <<14127, 0>>,
     <<14128, 2>>, <<14129, 72>>, <<14130, 4>>, <<14131, 1>>, <<14132, 10>>, <<14133, 17>>, <<14134, 17>>, <<14135, 0>>,
     <<14136, 80>>, <<14137, 72>>, <<14138, 72>>, <<14139, 72>>, <<14140, 17>>, <<14141, 17>>, <<14142, 0>>, <<14143, 54>>,
     <<14144, 54>>, <<14145, 54>>, <<14146, 54>>, <<14147, 1>>, <<14148, 21>>, <<14149, 6>>, <<14150, 3>>, <<14151, 53>>,
     <<14152, 53>>, <<14153, 28>>, <<14154, 0>>, <<14155, 131>>, <<14156, 20>>, <<14157, 1>>, <<14158, 1>>, <<14159, 4>>,
     <<14160, 79>>, <<14161, 2>>, <<14162, 3>>, <<14163, 160>>, <<14164, 6>>, <<14165, 23>>, <<14166, 5>>, <<14167, 25>>,
     <<14168, 0>>, <<14169, 48>>, <<14170, 0>>, <<14171, 96>>, <<14172, 0>>, <<14173, 8>>, <<14174, 12>>, <<14175, 3>>,
     <<14176, 15>>, <<14177, 14>>, <<14178, 21>>, <<14179, 3>>, <<14180, 10>>, <<14181, 28>>, <<14182, 6>>, <<14183, 6>>,
     <<14184, 21>>, <<14185, 1>>, <<14186, 1>>, <<14187, 0>>, <<14188, 7>>, <<14189, 8>>, <<14190, 8>>, <<14191, 8>>,
     <<14192, 145>>, <<14193, 8>>, <<14194, 1>>, <<14195, 0>>, <<14196, 2>>, <<14197, 0>>, <<14198, 0>>, <<14199, 153>>,
     <<14200, 0>>, <<14201, 34>>, <<14202, 2>>, <<14203, 1>>, <<14204, 72>>, <<14205, 0>>, <<14206, 0>>, <<14207, 6>>,
     <<14208, 0>>, <<14209, 2>>, <<14210, 7>>, <<14211, 2>>, <<14212, 9>>, <<14213, 15>>, <<14214, 4>>, <<14215, 3>>,
     <<14216, 2>>, <<14217, 2>>, <<14218, 4>>, <<14219, 0>>, <<14220, 0>>, <<14221, 0>>, <<14222, 0>>, <<14223, 0>>,
     <<14224, 19>>, <<14225, 5>>, <<14226, 49>>, <<14227, 0>>, <<14228, 20>>, <<14229, 0>>, <<14230, 0>>, <<14231, 0>>,
     <<14232, 0>>, <<14233, 0>>, <<14234, 0>>, <<14235, 16>>, <<14236, 0>>, <<14237, 72>>, <<14238, 160>>, <<14239, 0>>,
     <<14240, 8>>, <<14241, 128>>, <<14242, 3>>, <<14243, 4>>, <<14244, 3>>, <<14245, 15>>, <<14246, 18>>, <<14247, 15>>,
     <<14248, 4>>, <<14249, 6>>, <<14250, 4>>, <<14251, 5>>, <<14252, 4>>, <<14253, 10>>, <<14254, 10>>, <<14255, 1>>,
     <<14256, 9>>, <<14257, 4>>, <<14258, 6>>, <<14259, 8>>, <<14260, 6>>, <<14261, 6>>, <<14262, 6>>, <<14263, 6>>,
     <<14264, 192>>, <<14265, 1>>, <<14266, 6>>, <<14267, 88>>, <<14268, 34>>, <<14269, 1>>, <<14270, 1>>, <<14271, 0>>,
     <<14272, 1>>, <<14273, 17>>, <<14274, 17>>, <<14275, 0>>, <<14276, 80>>, <<14277, 76>>, <<14278, 76>>, <<14279, 76>>,
     <<14280, 2>>, <<14281, 15>>, <<14282, 16>>, <<14283, 52>>, <<14284, 16>>, <<14285, 52>>, <<14286, 4>>, <<14287, 16>>,
     <<14288, 0>>, <<14289, 51>>, <<14290, 0>>, <<14291, 100>>, <<14292, 0>>, <<14293, 50>>, <<14294, 0>>, <<14295, 99>>,
     <<14296, 1>>, <<14297, 0>>, <<14298, 0>>, <<14299, 0>>, <<14300, 84>>, <<14301, 0>>, <<14302, 40>>, <<14303, 0>>,
     <<14304, 0>>, <<14305, 1>>, <<14306, 0>>, <<14307, 40>>, <<14308, 0>>, <<14309, 0>>, <<14310, 0>>, <<14311, 0>>,
     <<14312, 0>>, <<14313, 0>>, <<14314, 0>>, <<14315, 0>>, <<14316, 0>>, <<14317, 0>>, <<14318, 0>>, <<14319, 0>>,
     <<14320, 0>>, <<14321, 0>>, <<14322, 0>>, <<14323, 0>>, <<14324, 0>>, <<14325, 0>>, <<14326, 0>>, <<14327, 0>>,
     <<14328, 0>>, <<14329, 0>>, <<14330, 0>>, <<14331, 0>>, <<14332, 0>>, <<14333, 0>>, <<14334, 0>>, <<14335, 0>>,
     <<13569, 2>>, <<13570, 0>>, <<13571, 168>>, <<13572, 8>>, <<13573, 0>>, <<13574, 64>>, <<13575, 0>>, <<13576, 1>>,
     <<13577, 112>>, <<13578, 1>>, <<13579, 0>>, <<13580, 0>>, <<13581, 0>>, <<13582, 2>>, <<13583, 0>>, <<13584, 64>>,
     <<13585, 0>>, <<13586, 0>>, <<13587, 23>>, <<13588, 0>>, <<13589, 23>>, <<13590, 0>>, <<13591, 7>>, <<13592, 1>>,
     <<13593, 0>>, <<13594, 0>>, <<13595, 1>>, <<13596, 0>>, <<13597, 0>>, <<13598, 1>>, <<13599, 7>>, <<13600, 1>>,
     <<13601, 112>>, <<13602, 0>>, <<13603, 0>>, <<13604, 0>>, <<13605, 0>>, <<13606, 0>>, <<13607, 0>>, <<13608, 0>>,
     <<13609, 0>>, <<13610, 0>>, <<13611, 0>>, <<13612, 0>>, <<13613, 0>>, <<13614, 0>>, <<13615, 0>>, <<13616, 0>>,
     <<13617, 0>>, <<13618, 0>>, <<13619, 0>>, <<13620, 0>>, <<13621, 0>>, <<13622, 0>>, <<13623, 0>>, <<13624, 0>>,
     <<13625, 0>>, <<13626, 0>>, <<13627, 0>>, <<13628, 0>>, <<13629, 0>>, <<13630, 0>>, <<13631, 0>>, <<13632, 0>>,
     <<13633, 2>>, <<13634, 0>>, <<13635, 168>>, <<13636, 8>>, <<13637, 0>>, <<13638, 32>>, <<13639, 0>>, <<13640, 5>>,
     <<13641, 0>>, <<13642, 1>>, <<13643, 0>>, <<13644, 0>>, <<13645, 0>>, <<13646, 2>>, <<13647, 0>>, <<13648, 32>>,
     <<13649, 0>>, <<13650, 0>>, <<13651, 80>>, <<13652, 0>>, <<13653, 80>>, <<13654, 3>>, <<13655, 4>>, <<13656, 1>>,
     <<13657, 0>>, <<13658, 0>>, <<13659, 1>>, <<13660, 0>>, <<13661, 0>>, <<13662, 5>>, <<13663, 0>>, <<13664, 5>>,
     <<13665, 0>>, <<13666, 0>>, <<13667, 0>>, <<13668, 0>>, <<13669, 0>>, <<13670, 0>>, <<13671, 0>>, <<13672, 0>>,
     <<16384, 120>>, <<16385, 43>>, <<16386, 0>>, <<16387, 128>>, <<16388, 0>>, <<16389, 128>>, <<16390, 15>>, <<16391, 0>>,
     <<16392, 0>>, <<16393, 7>>, <<16394, 8>>, <<16395, 0>>, <<16396, 15>>, <<16397, 16>>, <<16398, 2>>, <<16399, 45>>,
     <<16400, 223>>, <<16401, 1>>, <<16402, 48>>, <<16403, 1>>, <<16404, 63>>, <<16405, 255>>, <<16406, 0>>, <<16407, 7>>,
     <<16408, 18>>, <<16409, 127>>, <<16410, 8>>, <<16411, 2>>, <<16412, 2>>, <<16413, 2>>, <<16414, 0>>, <<16415, 4>>,
     <<16416, 88>>, <<16417, 13>>, <<16418, 48>>, <<16419, 16>>, <<16420, 0>>, <<16421, 0>>, <<16422, 0>>, <<16423, 64>>,
     <<16424, 0>>, <<16425, 64>>, <<16426, 0>>, <<16427, 64>>, <<16428, 0>>, <<16429, 64>>, <<16430, 0>>, <<16431, 0>>,
     <<16432, 0>>, <<16433, 0>>, <<16434, 0>>, <<16435, 0>>, <<16436, 0>>, <<16437, 0>>, <<16438, 0>>, <<16439, 0>>,
     <<16440, 0>>, <<16441, 0>>, <<16442, 0>>, <<16443, 0>>, <<16444, 0>>, <<16445, 0>>, <<16446, 1>>, <<16447, 191>>,
     <<16448, 1>>, <<16449, 191>>, <<16450, 1>>, <<16451, 191>>, <<16452, 1>>, <<16453, 191>>, <<16454, 1>>, <<16455, 152>>,
     <<16456, 1>>, <<16457, 152>>, <<16458, 1>>, <<16459, 152>>, <<16460, 1>>, <<16461, 152>>, <<16462, 2>>, <<16463, 0>>,
     <<16464, 2>>, <<16465, 0>>, <<16466, 2>>, <<16467, 0>>, <<16468, 2>>, <<16469, 0>>, <<16470, 2>>, <<16471, 0>>,
     <<16472, 2>>, <<16473, 0>>, <<16474, 2>>, <<16475, 0>>, <<16476, 2>>, <<16477, 0>>, <<16478, 0>>, <<16479, 0>>,
     <<16480, 0>>, <<16481, 0>>, <<16482, 0>>, <<16483, 0>>, <<16484, 0>>, <<16485, 0>>, <<16486, 0>>, <<16487, 0>>,
     <<16488, 0>>, <<16489, 0>>, <<16490, 0>>, <<16491, 0>>, <<16492, 0>>, <<16493, 0>>, <<16494, 0>>, <<16495, 0>>,
     <<16496, 0>>, <<16497, 0>>, <<16498, 0>>, <<16499, 0>>, <<16500, 0>>, <<16501, 0>>, <<16502, 0>>, <<16503, 0>>,
     <<16504, 0>>, <<16505, 0>>, <<16506, 0>>, <<16507, 0>>, <<16508, 0>>, <<16509, 0>>, <<16510, 255>>, <<16511, 255>>,
     <<16512, 0>>, <<16513, 237>>, <<16514, 0>>, <<16515, 161>>, <<16516, 0>>, <<16517, 183>>, <<16518, 0>>, <<16519, 127>>,
     <<16520, 16>>, <<16521, 15>>, <<16522, 1>>, <<16523, 0>>, <<16524, 0>>, <<16525, 240>>, <<16526, 15>>, <<16527, 0>>,
     <<16528, 8>>, <<16529, 0>>, <<16530, 8>>, <<16531, 0>>, <<16532, 8>>, <<16533, 0>>, <<16534, 8>>, <<16535, 0>>,
     <<16536, 7>>, <<16537, 254>>, <<16538, 7>>, <<16539, 255>>, <<16540, 7>>, <<16541, 255>>, <<16542, 7>>, <<16543, 254>>,
     <<16544, 8>>, <<16545, 12>>, <<16546, 8>>, <<16547, 12>>, <<16548, 8>>, <<16549, 12>>, <<16550, 8>>, <<16551, 12>>,
     <<16552, 8>>, <<16553, 2>>, <<16554, 8>>, <<16555, 2>>, <<16556, 8>>, <<16557, 2>>, <<16558, 8>>, <<16559, 2>>,
     <<16560, 63>>, <<16561, 0>>, <<16562, 0>>, <<16563, 0>>, <<16564, 0>>, <<16565, 0>>, <<16566, 0>>, <<16567, 0>>,
     <<16568, 0>>, <<16569, 0>>, <<16570, 0>>, <<16571, 0>>, <<16572, 0>>, <<16573, 0>>, <<16574, 0>>, <<16575, 0>>,
     <<16576, 63>>, <<16577, 255>>, <<16578, 0>>, <<16579, 255>>, <<16580, 63>>, <<16581, 254>>, <<16582, 0>>, <<16583, 0>>,
     <<16584, 63>>, <<16585, 255>>, <<16586, 0>>, <<16587, 0>>, <<16588, 0>>, <<16589, 0>>, <<16590, 0>>, <<16591, 0>>,
     <<16592, 0>>, <<16593, 208>>, <<16594, 0>>, <<16595, 208>>, <<16596, 0>>, <<16597, 208>>, <<16598, 0>>, <<16599, 208>>,
     <<16600, 0>>, <<16601, 0>>, <<16602, 0>>, <<16603, 0>>, <<16604, 0>>, <<16605, 0>>, <<16606, 0>>, <<16607, 0>>,
     <<16608, 48>>, <<16609, 48>>, <<16610, 48>>, <<16611, 48>>, <<16612, 0>>, <<16613, 0>>, <<16614, 0>>, <<16615, 0>>,
     <<16616, 0>>, <<16617, 3>>, <<18560, 0>>, <<18561, 0>>, <<18562, 0>>, <<18563, 0>>, <<18564, 8>>, <<18565, 16>>,
     <<18566, 0>>, <<18567, 81>>, <<18568, 144>>, <<18569, 3>>, <<18570, 0>>, <<18688, 6>>, <<18689, 0>>, <<18690, 0>>,
     <<18691, 128>>, <<5632, 192>>, <<5633, 40>>, <<5634, 200>>, <<5635, 16>>, <<5636, 0>>, <<5637, 16>>, <<5638, 1>>,
     <<5639, 71>>, <<5640, 3>>, <<5641, 0>>, <<5642, 0>>, <<5643, 0>>, <<5644, 64>>, <<5645, 0>>, <<5646, 0>>,
     <<5647, 0>>, <<5648, 0>>, <<5649, 2>>, <<5650, 0>>, <<5651, 0>>, <<5652, 0>>, <<5653, 0>>, <<5654, 0>>,
     <<5655, 255>>, <<5656, 191>>, <<5657, 0>>, <<5658, 0>>, <<5659, 32>>, <<5660, 0>>, <<5661, 136>>, <<5662, 0>>,
     <<5663, 1>>, <<5664, 1>>, <<5665, 0>>, <<5666, 0>>, <<5667, 0>>, <<5668, 32>>, <<5669, 0>>, <<5670, 24>>,
     <<5671, 0>>, <<5672, 223>>, <<5673, 143>>, <<5674, 0>>, <<5675, 0>>, <<5676, 255>>, <<5677, 255>>, <<5678, 0>>,
     <<5679, 0>>, <<5680, 0>>, <<5681, 0>>, <<5682, 0>>, <<5683, 0>>, <<5684, 0>>, <<5685, 0>>, <<5686, 0>>,
     <<5687, 0>>, <<5688, 0>>, <<5689, 0>>, <<5690, 0>>, <<5691, 0>>, <<5692, 0>>, <<5693, 0>>, <<5694, 0>>,
     <<5695, 0>>, <<5696, 0>>, <<5697, 0>>, <<5698, 0>>, <<5699, 0>>, <<5700, 0>>, <<5701, 0>>, <<5702, 0>>,
     <<5703, 0>>, <<5704, 0>>, <<5705, 0>>, <<5706, 0>>, <<5707, 0>>, <<5708, 0>>, <<5709, 0>>, <<5710, 0>>,
     <<5711, 0>>, <<5712, 85>>, <<5713, 133>>, <<5714, 1>>, <<5715, 132>>, <<5716, 82>>, <<5717, 4>>, <<5718, 0>>,
     <<5719, 8>>, <<5720, 1>>, <<5721, 1>>, <<5722, 1>>, <<5723, 1>>, <<5724, 1>>, <<5725, 4>>, <<5726, 1>>,
     <<5727, 1>>, <<5728, 1>>, <<5729, 1>>, <<5730, 1>>, <<5731, 0>>, <<5732, 8>>, <<5733, 0>>, <<5734, 0>>,
     <<5735, 0>>, <<5736, 255>>, <<5737, 244>>, <<5738, 207>>, <<5739, 3>>, <<5740, 255>>, <<5741, 126>>, <<5742, 30>>,
     <<5743, 0>>, <<5744, 255>>, <<5745, 255>>, <<5746, 7>>, <<5747, 0>>, <<5748, 128>>, <<5749, 4>>, <<5750, 134>>,
     <<5751, 1>>, <<5752, 0>>, <<5753, 1>>, <<5754, 2>>, <<5755, 0>>, <<5756, 0>>, <<5757, 0>>, <<5758, 0>>,
     <<5759, 0>>, <<5760, 0>>, <<5761, 0>>, <<5762, 0>>, <<5763, 0>>, <<5764, 128>>, <<5765, 2>>, <<5766, 0>>,
     <<5767, 0>>, <<5768, 127>>, <<5769, 1>>, <<5770, 1>>, <<5771, 0>>, <<5772, 0>>, <<5773, 7>>, <<5774, 0>>,
     <<5775, 0>>, <<5776, 119>>, <<5777, 3>>, <<5778, 0>>, <<5779, 0>>, <<5780, 255>>, <<5781, 255>>, <<5782, 0>>,
     <<5783, 0>>, <<5784, 136>>, <<5785, 252>>, <<5786, 0>>, <<5787, 0>>, <<5788, 0>>, <<5789, 0>>, <<5790, 0>>,
     <<5791, 0>>, <<5792, 4>>, <<5793, 0>>, <<5794, 0>>, <<5795, 0>>, <<5796, 0>>, <<5797, 0>>, <<5798, 0>>,
     <<5799, 0>>, <<5800, 0>>, <<5801, 0>>, <<5802, 0>>, <<5803, 0>>, <<5804, 0>>, <<5805, 0>>, <<5806, 0>>,
     <<5807, 0>>, <<5808, 6>>, <<5809, 6>>, <<5810, 1>>, <<5811, 0>>, <<5812, 6>>, <<5813, 0>>, <<5814, 0>>,
     <<5815, 0>>, <<5816, 0>>, <<5817, 0>>, <<5818, 0>>, <<5819, 0>>, <<5820, 0>>, <<5821, 0>>, <<5822, 0>>,
     <<5823, 0>>, <<5824, 128>>, <<5825, 4>>, <<5826, 20>>, <<5827, 0>>, <<5828, 147>>, <<5829, 0>>, <<5830, 0>>,
     <<5831, 33>>, <<5832, 88>>, <<5833, 208>>, <<5834, 34>>, <<5835, 6>>, <<5836, 34>>, <<5837, 81>>, <<5838, 0>>,
     <<5839, 34>>, <<5840, 9>>, <<5841, 0>>, <<5842, 0>>, <<5843, 31>>, <<5844, 0>>, <<5845, 0>>, <<5846, 0>>,
     <<5847, 0>>, <<5848, 0>>, <<5849, 0>>, <<5850, 0>>, <<5851, 0>>, <<5852, 0>>, <<5853, 0>>, <<5854, 0>>,
     <<5855, 0>>, <<5856, 0>>, <<5857, 0>>, <<5858, 0>>, <<5859, 0>>, <<5860, 0>>, <<5861, 0>>, <<5862, 0>>,
     <<5863, 0>>, <<5864, 0>>, <<5865, 0>>, <<5866, 0>>, <<5867, 0>>, <<5868, 0>>, <<5869, 0>>, <<5870, 0>>,
     <<5871, 0>>, <<5872, 0>>, <<5873, 0>>, <<5874, 0>>, <<5875, 0>>, <<5876, 0>>, <<5877, 0>>, <<5878, 0>>,
     <<5879, 0>>, <<5880, 0>>, <<5881, 0>>, <<5882, 0>>, <<5883, 0>>, <<5884, 0>>, <<5885, 0>>, <<5886, 0>>,
     <<5887, 0>>, <<6400, 51>>, <<6401, 8>>, <<6402, 16>>, <<6403, 2>>, <<6404, 3>>, <<6405, 40>>, <<6406, 0>>,
     <<6407, 51>>, <<6408, 0>>, <<6409, 0>>, <<6410, 0>>, <<6411, 0>>, <<6412, 0>>, <<6413, 255>>, <<6414, 85>>,
     <<6415, 170>>, <<6416, 255>>, <<6417, 254>>, <<6418, 255>>, <<6419, 255>>, <<6420, 255>>, <<6421, 255>>, <<6422, 255>>,
     <<6423, 255>>, <<6424, 0>>, <<6425, 0>>, <<6426, 0>>, <<6427, 0>>, <<6428, 0>>, <<6429, 0>>, <<6430, 0>>,
     <<6431, 0>>, <<6432, 255>>, <<6433, 255>>, <<6434, 255>>, <<6435, 255>>, <<6436, 255>>, <<6437, 143>>, <<6438, 203>>,
     <<6439, 255>>, <<6440, 0>>, <<6441, 0>>, <<6442, 0>>, <<6443, 0>>, <<6444, 0>>, <<6445, 0>>, <<6446, 0>>,
     <<6447, 0>>, <<6448, 0>>, <<6449, 0>>, <<6450, 0>>, <<6451, 0>>, <<6452, 0>>, <<6453, 0>>, <<6454, 0>>,
     <<6455, 0>>, <<6456, 0>>, <<6457, 0>>, <<6458, 0>>, <<6459, 0>>, <<6460, 0>>, <<6461, 0>>, <<6462, 0>>,
     <<6463, 0>>, <<6464, 0>>, <<6465, 0>>, <<6466, 0>>, <<6467, 0>>, <<6468, 0>>, <<6469, 0>>, <<6470, 0>>,
     <<6471, 0>>, <<6472, 0>>, <<6473, 0>>, <<6474, 0>>, <<6475, 0>>, <<6476, 0>>, <<6477, 0>>, <<6478, 0>>,
     <<6479, 0>>, <<6480, 0>>, <<6481, 0>>, <<6482, 0>>, <<6483, 0>>, <<6484, 0>>, <<6485, 0>>, <<6486, 16>>,
     <<6487, 0>>, <<6488, 0>>, <<6489, 0>>, <<6490, 0>>, <<6491, 0>>, <<6492, 0>>, <<6493, 0>>, <<6494, 0>>,
     <<6495, 0>>, <<6496, 0>>, <<6497, 0>>, <<6498, 0>>, <<6499, 0>>, <<6500, 0>>, <<6501, 0>>, <<6502, 0>>,
     <<6503, 0>>, <<6504, 0>>, <<6505, 0>>, <<6506, 0>>, <<6507, 0>>, <<6508, 0>>, <<6509, 0>>, <<6510, 0>>,
     <<6511, 0>>, <<6512, 0>>, <<6513, 0>>, <<6514, 0>>, <<6515, 0>>, <<6516, 0>>, <<6517, 0>>, <<6518, 0>>,
     <<6519, 0>>, <<6520, 0>>, <<6521, 0>>, <<6522, 0>>, <<6523, 0>>, <<6524, 0>>, <<6525, 0>>, <<6526, 0>>,
     <<6527, 0>>, <<6528, 0>>, <<6529, 0>>, <<6530, 0>>, <<6531, 0>>, <<6532, 0>>, <<6533, 112>>, <<6534, 52>>,
     <<6535, 0>>, <<6536, 0>>, <<6537, 0>>, <<6538, 0>>, <<6539, 0>>, <<6540, 0>>, <<6541, 0>>, <<6542, 0>>,
     <<6543, 192>>, <<6544, 255>>, <<6545, 255>>, <<6546, 255>>, <<6547, 255>>, <<6548, 255>>, <<6549, 255>>, <<6550, 255>>,
     <<6551, 63>>, <<REG_NULL, 0>> >>

\* ox03c10.c, lines 1341-1345 (addresses and values in decimal)
ox03c10_1920x1536_2_lanes_regs ==
  << <<REG_NULL, 0>> >>

(***************************************************************************)
(* Mode tables.                                                            *)
(***************************************************************************)
ov6211_supported_modes ==
  << [width |-> 400, height |-> 400, hts_def |-> 929, vts_def |-> 538,
      exp_def |-> 248, reg_list |-> ov6211_400x400_120fps_regs,
      hdr_mode |-> "NO_HDR", max_fps |-> << 10000, 1200000 >>] >>

ox03j10_supported_modes ==
  << [width |-> 1920, height |-> 1536, hts_def |-> 1056, vts_def |-> 1694,
      exp_def |-> 248, reg_list |-> ox03j10_1920x1536_2_lanes_regs,
      hdr_mode |-> "NO_HDR", max_fps |-> << 10000, 300000 >>] >>

ox03c10_supported_modes ==
  << [width |-> 1920, height |-> 1536, hts_def |-> 1056, vts_def |-> 1694,
      exp_def |-> 248, reg_list |-> ox03c10_1920x1536_2_lanes_regs,
      hdr_mode |-> "NO_HDR", max_fps |-> << 10000, 300000 >>] >>

supported_modes(c) ==
  CASE c = "ov6211" -> ov6211_supported_modes
    [] c = "ox03j10" -> ox03j10_supported_modes
    [] c = "ox03c10" -> ox03c10_supported_modes

global_regs(c) ==
  CASE c = "ov6211" -> ov6211_global_regs
    [] c = "ox03j10" -> ox03j10_global_regs
    [] c = "ox03c10" -> ox03c10_global_regs

(***************************************************************************)
(* State.                                                                  *)
(***************************************************************************)
VARIABLES
  chip,            \* which driver is bound to the device
  cur_mode,        \* index into supported_modes (1-based)
  cur_fps,         \* struct field `cur_fps': <<numerator, denominator>>
  streaming,       \* struct field `streaming'
  power_on,        \* struct field `power_on'
  usage_count,     \* runtime-power usage count of the device
  runtime_status,  \* "active" or "suspended"
  idle_pending,    \* an asynchronous idle request queued by pm_runtime_put
  hw,              \* clock, supply rails, reset line, pin state
  ctrl_val,        \* current value of every control of the handler
  exposure,        \* range of the exposure control
  vblank,          \* range of the vertical-blanking control
  hblank,          \* range of the horizontal-blanking control
  bus,             \* bus transactions issued by the call that has not yet returned
  pm,              \* power-reference and power-sequencing calls made by that call
  call,            \* that call: entry point, arguments, result, state at entry
  deferred,        \* the exposure value was set while register I/O was skipped
  fit,             \* a mode lookup: table, requested size, entry found (0: not yet)
  xfer,            \* a register access on its own: arguments, bytes sent, results
  attach,          \* the probe: whether it has run, what it did and returned
  conc             \* calls in progress on two threads: the mutex, each thread's
                   \* remaining steps, and the step taken last

\* the variables of the single-function specifications further down
side == << fit, xfer, attach, conc >>

vars == << chip, cur_mode, cur_fps, streaming, power_on, usage_count, runtime_status,
           idle_pending, hw, ctrl_val, exposure, vblank, hblank, bus, pm, call,
           deferred, side >>

(***************************************************************************)
(* The environment of one entry-point call.                                *)
(*   failAt  index (from 1) of the first bus transaction of the call that  *)
(*           fails; 0: none fails                                          *)
(*   stuck   whether the transactions after the first failing one fail too *)
(*   rd      the byte the chip returns when a flip register is read        *)
(*   clk_ok, reg_ok  outcome of clk_prepare_enable, regulator_bulk_enable  *)
(*   pins_ok  outcome of pinctrl_select_state(pins_default)                *)
(*   rate_ok  whether clk_set_rate succeeds and clk_get_rate agrees        *)
(***************************************************************************)
BusFails(env, k) ==
  env.failAt # 0 /\ (k = env.failAt \/ (k > env.failAt /\ env.stuck))

\* the byte the chip returns when register reg is read
HwByte(env, reg) ==
  IF reg = MIRROR_REG \/ reg = FLIP_REG THEN env.rd ELSE 0

(***************************************************************************)
(* Register transport.  A device record d carries the fields a handler     *)
(* reads and writes; d.ret is the return value of the call just made.      *)
(***************************************************************************)
\* the bytes of the value in little-endian order
BeByte_le(val, i) ==
  CASE i = 3 -> (val \div 16777216) % 256
    [] i = 2 -> (val \div 65536) % 256
    [] i = 1 -> (val \div 256) % 256
    [] i = 0 -> val % 256

\* byte i (0 = most significant) of cpu_to_be32(val)
BeByte(val, i) ==
  CASE i = 0 -> (val \div 16777216) % 256
    [] i = 1 -> (val \div 65536) % 256
    [] i = 2 -> (val \div 256) % 256
    [] i = 3 -> val % 256

\* the message write_reg hands to i2c_master_send as transaction number k of
\* the call: two address bytes, then the len low-order bytes of the value
i2c_master_send(env, k, reg, len, val) ==
  [ op |-> "w",
    buf |-> << reg \div 256, reg % 256 >> \o [j \in 1..len |-> BeByte(val, 4 - len + j - 1)],
    len |-> len, ok |-> ~BusFails(env, k) ]

write_reg(d, env, reg, len, val) ==
  IF len > 4 THEN [d EXCEPT !.ret = -EINVAL]
  ELSE
    LET t == i2c_master_send(env, Len(d.bus) + 1, reg, len, val)
    IN [d EXCEPT !.bus = Append(@, t), !.ret = IF t.ok THEN 0 ELSE -EIO]

\* be32_to_cpu of the bytes read into the low-order end of a zeroed word;
\* the result is a 32-bit word (a leading byte of 128 or more sets bit 31)
BeDecode(bytes) ==
  LET n == Len(bytes)
      w == [j \in 1..4 |-> IF j <= 4 - n THEN 0 ELSE bytes[j - (4 - n)]]
      top == IF w[1] >= 128 THEN w[1] - 256 ELSE w[1]
  IN top * 16777216 + w[2] * 65536 + w[3] * 256 + w[4]

\* the len bytes the chip returns for a read of register reg: those the
\* environment names, else a byte for the flip registers and zeroes
HwData(env, reg, len) ==
  IF "data" \in DOMAIN env THEN env.data
  ELSE IF "id" \in DOMAIN env /\ reg \in {OV6211_REG_CHIP_ID, OX03_REG_CHIP_ID}
  THEN [j \in 1..len |-> BeByte(env.id, 4 - len + j - 1)]
  ELSE [j \in 1..len |-> IF j = len THEN HwByte(env, reg) ELSE 0]

\* d.val is the caller's *val: it is written only on success
read_reg(d, env, reg, len) ==
  IF len > 4 \/ len = 0 THEN [d EXCEPT !.ret = -EINVAL]
  ELSE
    LET ok   == ~BusFails(env, Len(d.bus) + 1)
        data == HwData(env, reg, len)
    IN [d EXCEPT !.bus = Append(@, [op |-> "r", buf |-> << reg \div 256, reg % 256 >>,
                                    len |-> len, ok |-> ok]),
                 !.val = IF ok THEN BeDecode(data) ELSE @,
                 !.ret = IF ok THEN 0 ELSE -EIO]

\* The entries write_array hands to write_reg if no write fails: those
\* before the first REG_NULL; the ox03j10 and ox03c10 loops sleep on a
\* REG_DELAY entry instead of writing it, the ov6211 loop has no such case.
ProgramWrites(c, regs) ==
  LET nulls == { i \in 1..Len(regs) : regs[i][1] = REG_NULL }
      end   == CHOOSE i \in nulls : \A j \in nulls : i <= j
      IsWrite(e) == c = "ov6211" \/ e[1] # REG_DELAY
  IN SelectSeq(SubSeq(regs, 1, end - 1), IsWrite)

\* a write_array that goes on writing after a write has failed
write_array_all(c, d, env, regs) ==
  LET W     == ProgramWrites(c, regs)
      base  == Len(d.bus)
      bad   == { k \in 1..Len(W) : BusFails(env, base + k) }
  IN [d EXCEPT !.bus = @ \o [k \in 1..Len(W) |-> i2c_master_send(env, base + k, W[k][1],
                                                                REG_VALUE_08BIT, W[k][2])],
               !.ret = IF bad = {} THEN 0 ELSE -EIO]

\* for (i = 0; ret == 0 && regs[i].addr != REG_NULL; i++)
\*         ret = write_reg(client, regs[i].addr, REG_VALUE_08BIT, regs[i].val);
\* the writes go out in table order up to and including the first that fails
write_array(c, d, env, regs) ==
  LET W     == ProgramWrites(c, regs)
      base  == Len(d.bus)
      bad   == { k \in 1..Len(W) : BusFails(env, base + k) }
      m     == IF bad = {} THEN Len(W) ELSE CHOOSE k \in bad : \A j \in bad : k <= j
  IN [d EXCEPT !.bus = @ \o [k \in 1..m |-> i2c_master_send(env, base + k, W[k][1],
                                                           REG_VALUE_08BIT, W[k][2])],
               !.ret = IF bad = {} THEN 0 ELSE -EIO]

(***************************************************************************)
(* Power sequencing.                                                       *)
(***************************************************************************)
\* The clock, reset-line and regulator calls are entered in d.pm as they are
\* made; a call that fails is entered with the suffix ":fail".  d.released
\* is the number of bus transactions the call had made when the reset line
\* was released (-1: it was not released).

\* pinctrl_select_state(pins_default), clk_set_rate and clk_get_rate: a
\* failure is reported in the kernel log and otherwise ignored (these calls
\* are entered in d.pm only when they fail)
select_pins_and_rate(d, env) ==
  LET p == IF env.pins_ok THEN [d EXCEPT !.hw.pins = "default"]
           ELSE [d EXCEPT !.pm = Append(@, "pinctrl_select_state:fail")]
  IN IF env.rate_ok THEN p ELSE [p EXCEPT !.pm = Append(@, "clk_set_rate:fail")]

\* a power-on that gives up when the pins cannot be selected
__power_on_pins_fatal(d, env) ==
  LET pins == select_pins_and_rate(d, env)
  IN IF ~env.pins_ok THEN [pins EXCEPT !.ret = -1]
     ELSE IF ~env.clk_ok
     THEN [pins EXCEPT !.pm = Append(@, "clk_prepare_enable:fail"), !.ret = -1]
     ELSE IF ~env.reg_ok
     THEN [pins EXCEPT !.hw.reset = 0,
                       !.pm = @ \o << "clk_prepare_enable", "reset=0",
                                      "regulator_bulk_enable:fail",
                                      "clk_disable_unprepare" >>,
                       !.ret = -1]
     ELSE [pins EXCEPT !.hw.xvclk = @ + 1, !.hw.supplies = @ + 1, !.hw.reset = 1,
                       !.pm = @ \o << "clk_prepare_enable", "reset=0",
                                      "regulator_bulk_enable", "reset=1" >>,
                       !.released = Len(d.bus),
                       !.ret = 0]

\* a power-on that releases the reset line before it enables the regulators
__power_on_early_release(d, env) ==
  LET pins == select_pins_and_rate(d, env)
  IN IF ~env.clk_ok
     THEN [pins EXCEPT !.pm = Append(@, "clk_prepare_enable:fail"), !.ret = -1]
     ELSE IF ~env.reg_ok
     THEN [pins EXCEPT !.hw.reset = 0,
                       !.pm = @ \o << "clk_prepare_enable", "reset=0", "reset=1",
                                      "regulator_bulk_enable:fail",
                                      "clk_disable_unprepare" >>,
                       !.released = Len(d.bus),
                       !.ret = -1]
     ELSE [pins EXCEPT !.hw.xvclk = @ + 1, !.hw.supplies = @ + 1, !.hw.reset = 1,
                       !.pm = @ \o << "clk_prepare_enable", "reset=0", "reset=1",
                                      "regulator_bulk_enable" >>,
                       !.released = Len(d.bus),
                       !.ret = 0]

\* a power-on that leaves the clock running when the regulators fail
__power_on_no_rollback(d, env) ==
  LET pins == select_pins_and_rate(d, env)
  IN IF ~env.clk_ok
     THEN [pins EXCEPT !.pm = Append(@, "clk_prepare_enable:fail"), !.ret = -1]
     ELSE IF ~env.reg_ok
     THEN [pins EXCEPT !.hw.xvclk = @ + 1, !.hw.reset = 0,
                       !.pm = @ \o << "clk_prepare_enable", "reset=0",
                                      "regulator_bulk_enable:fail" >>,
                       !.ret = -1]
     ELSE [pins EXCEPT !.hw.xvclk = @ + 1, !.hw.supplies = @ + 1, !.hw.reset = 1,
                       !.pm = @ \o << "clk_prepare_enable", "reset=0",
                                      "regulator_bulk_enable", "reset=1" >>,
                       !.released = Len(d.bus),
                       !.ret = 0]

__power_on(d, env) ==
  LET pins == select_pins_and_rate(d, env)
  IN IF ~env.clk_ok
     THEN [pins EXCEPT !.pm = Append(@, "clk_prepare_enable:fail"), !.ret = -1]
     ELSE IF ~env.reg_ok
     THEN \* goto disable_clk: the clock was enabled and is disabled again
          [pins EXCEPT !.hw.reset = 0,
                       !.pm = @ \o << "clk_prepare_enable", "reset=0",
                                      "regulator_bulk_enable:fail",
                                      "clk_disable_unprepare" >>,
                       !.ret = -1]
     ELSE [pins EXCEPT !.hw.xvclk = @ + 1, !.hw.supplies = @ + 1, !.hw.reset = 1,
                       !.pm = @ \o << "clk_prepare_enable", "reset=0",
                                      "regulator_bulk_enable", "reset=1" >>,
                       !.released = Len(d.bus),
                       !.ret = 0]

__power_off(d) ==
  [d EXCEPT !.hw = [xvclk |-> d.hw.xvclk - 1, reset |-> 0, pins |-> "sleep",
                    supplies |-> d.hw.supplies - 1],
            !.pm = @ \o << "clk_disable_unprepare", "reset=0",
                           "regulator_bulk_disable" >>]

(***************************************************************************)
(* The runtime-power service (host power management), as the drivers use   *)
(* it: a usage count, a status, and the driver's resume/suspend callbacks. *)
(***************************************************************************)
\* takes a reference and resumes the device if it is suspended;
\* returns 1 if it was active already, 0 after a resume, < 0 if resume failed
pm_runtime_get_sync(d, env) ==
  LET resumed(r) == IF r.ret < 0 THEN r ELSE [r EXCEPT !.runtime_status = "active"]
      counted(g) == IF g.runtime_status = "active" THEN [g EXCEPT !.ret = 1]
                    ELSE resumed(__power_on(g, env))     \* runtime_resume callback
  IN counted([d EXCEPT !.usage_count = @ + 1, !.pm = Append(@, "get_sync"),
                       !.idle_pending = FALSE])

\* takes a reference only if the device is active and already in use
pm_runtime_get_if_in_use(d) ==
  IF d.runtime_status = "active" /\ d.usage_count > 0
  THEN [d EXCEPT !.usage_count = @ + 1, !.pm = Append(@, "get_if_in_use"), !.ret = 1]
  ELSE [d EXCEPT !.ret = 0]

\* drops a reference; at zero an idle request is queued (suspend comes later)
pm_runtime_put(d) ==
  [d EXCEPT !.usage_count = @ - 1, !.pm = Append(@, "put"),
            !.idle_pending = (d.usage_count - 1 = 0) \/ @]

\* drops a reference without any idle request
pm_runtime_put_noidle(d) ==
  [d EXCEPT !.usage_count = @ - 1, !.pm = Append(@, "put_noidle")]

(***************************************************************************)
(* The control handler.                                                    *)
(***************************************************************************)
\* the controls that have the driver's ops, in the order they are created
CtrlOrder == << "VBLANK", "EXPOSURE", "ANALOGUE_GAIN", "TEST_PATTERN", "HFLIP", "VFLIP" >>

CtrlIds == { CtrlOrder[i] : i \in 1..Len(CtrlOrder) }

\* the framework's range update of a control
__v4l2_ctrl_modify_range(min, max, step, def) ==
  [minimum |-> min, maximum |-> max, step |-> step, default_value |-> def]

FETCH_MIRROR(val, enable) ==
  IF enable # 0 THEN BitOr(val, 1) ELSE BitAnd(val, 249)

FETCH_FLIP(val, enable) ==
  IF enable # 0 THEN BitOr(val, 1) ELSE BitAnd(val, 159)

\* a test-pattern write that uses the menu index as the pattern number
enable_test_pattern_index(d, env, pattern) ==
  LET val == IF pattern # 0 THEN BitOr(pattern, TEST_PATTERN_ENABLE)
             ELSE TEST_PATTERN_DISABLE
  IN write_reg(d, env, REG_TEST_PATTERN, REG_VALUE_08BIT, val)

enable_test_pattern(d, env, pattern) ==
  LET val == IF pattern # 0 THEN BitOr(pattern - 1, TEST_PATTERN_ENABLE)
             ELSE TEST_PATTERN_DISABLE
  IN write_reg(d, env, REG_TEST_PATTERN, REG_VALUE_08BIT, val)

\* a flip that gives up when the read has failed
flip_io_stops(d, env, reg, enable) ==
  LET fetch(v) == IF reg = MIRROR_REG THEN FETCH_MIRROR(v, enable) ELSE FETCH_FLIP(v, enable)
      readback(r) == IF r.ret # 0 THEN r
                     ELSE write_reg(r, env, reg, REG_VALUE_08BIT, fetch(r.val))
  IN readback(read_reg([d EXCEPT !.val = 0], env, reg, REG_VALUE_08BIT))

\* ret = read_reg(reg, &val); ret |= write_reg(reg, FETCH(val, enable));
flip_io(d, env, reg, enable) ==
  LET fetch(v) == IF reg = MIRROR_REG THEN FETCH_MIRROR(v, enable) ELSE FETCH_FLIP(v, enable)
      written(r, w) == [w EXCEPT !.ret = BitOr(r.ret, w.ret)]
      readback(r) == written(r, write_reg(r, env, reg, REG_VALUE_08BIT, fetch(r.val)))
  IN readback(read_reg([d EXCEPT !.val = 0], env, reg, REG_VALUE_08BIT))

\* register I/O that writes the exposure unshifted
set_ctrl_io_unshifted(d, env, id, val) ==
  CASE id = "EXPOSURE" ->
         write_reg(d, env, REG_EXPOSURE, REG_VALUE_24BIT, val)
    [] id = "ANALOGUE_GAIN" ->
         write_reg(d, env, REG_ANALOG_GAIN, REG_VALUE_16BIT, BitAnd(val, ANALOG_GAIN_MASK))
    [] id = "VBLANK" ->
         write_reg(d, env, REG_VTS, REG_VALUE_16BIT,
                   AddW(val, supported_modes(d.chip)[d.cur_mode].height))
    [] id = "TEST_PATTERN" -> enable_test_pattern(d, env, val)
    [] id = "HFLIP" -> flip_io(d, env, MIRROR_REG, val)
    [] id = "VFLIP" -> flip_io(d, env, FLIP_REG, val)
    [] OTHER -> [d EXCEPT !.ret = 0]

\* register I/O that writes the blanking alone to the VTS register
set_ctrl_io_blanking(d, env, id, val) ==
  CASE id = "EXPOSURE" ->
         write_reg(d, env, REG_EXPOSURE, REG_VALUE_24BIT, val * 16)
    [] id = "ANALOGUE_GAIN" ->
         write_reg(d, env, REG_ANALOG_GAIN, REG_VALUE_16BIT, BitAnd(val, ANALOG_GAIN_MASK))
    [] id = "VBLANK" ->
         write_reg(d, env, REG_VTS, REG_VALUE_16BIT, val)
    [] id = "TEST_PATTERN" -> enable_test_pattern(d, env, val)
    [] id = "HFLIP" -> flip_io(d, env, MIRROR_REG, val)
    [] id = "VFLIP" -> flip_io(d, env, FLIP_REG, val)
    [] OTHER -> [d EXCEPT !.ret = 0]

\* register I/O that refuses a control it has no case for
set_ctrl_io_rejects(d, env, id, val) ==
  CASE id = "EXPOSURE" ->
         write_reg(d, env, REG_EXPOSURE, REG_VALUE_24BIT, val * 16)
    [] id = "ANALOGUE_GAIN" ->
         write_reg(d, env, REG_ANALOG_GAIN, REG_VALUE_16BIT, BitAnd(val, ANALOG_GAIN_MASK))
    [] id = "VBLANK" ->
         write_reg(d, env, REG_VTS, REG_VALUE_16BIT,
                   AddW(val, supported_modes(d.chip)[d.cur_mode].height))
    [] id = "TEST_PATTERN" -> enable_test_pattern(d, env, val)
    [] id = "HFLIP" -> flip_io(d, env, MIRROR_REG, val)
    [] id = "VFLIP" -> flip_io(d, env, FLIP_REG, val)
    [] OTHER -> [d EXCEPT !.ret = -EINVAL]

\* the register I/O of one control (the second switch of set_ctrl)
set_ctrl_io(d, env, id, val) ==
  CASE id = "EXPOSURE" ->
         write_reg(d, env, REG_EXPOSURE, REG_VALUE_24BIT, val * 16)
    [] id = "ANALOGUE_GAIN" ->
         write_reg(d, env, REG_ANALOG_GAIN, REG_VALUE_16BIT, BitAnd(val, ANALOG_GAIN_MASK))
    [] id = "VBLANK" ->
         write_reg(d, env, REG_VTS, REG_VALUE_16BIT,
                   AddW(val, supported_modes(d.chip)[d.cur_mode].height))
    [] id = "TEST_PATTERN" -> enable_test_pattern(d, env, val)
    [] id = "HFLIP" -> flip_io(d, env, MIRROR_REG, val)
    [] id = "VFLIP" -> flip_io(d, env, FLIP_REG, val)
    [] OTHER -> [d EXCEPT !.ret = 0]

\* a handler that does its register I/O whatever the power state
set_ctrl_unguarded(d, env, id, val) ==
  set_ctrl_io([d EXCEPT !.ret = 0], env, id, val)

\* a handler that leaves the exposure range alone
set_ctrl_no_range(d, env, id, val) ==
  LET done(w) == [pm_runtime_put(w) EXCEPT !.ret = w.ret]
      held(g) == IF g.ret = 0 THEN g
                 ELSE done(set_ctrl_io([g EXCEPT !.ret = 0], env, id, val))
  IN held(pm_runtime_get_if_in_use(d))

\* a handler that keeps its reference when the register I/O fails
set_ctrl_keeps_reference(d, env, id, val) ==
  LET done(w) == IF w.ret # 0 THEN w ELSE [pm_runtime_put(w) EXCEPT !.ret = w.ret]
      held(g) == IF g.ret = 0 THEN g
                 ELSE done(set_ctrl_io([g EXCEPT !.ret = 0], env, id, val))
  IN held(pm_runtime_get_if_in_use(d))

set_ctrl(d, env, id, val) ==
  LET max == ZExt(SubW(AddW(supported_modes(d.chip)[d.cur_mode].height, val),
                       EXPOSURE_MARGIN))
      \* Propagate change of current control to all related controls
      ranged == IF id = "VBLANK"
                THEN [d EXCEPT !.exposure =
                         __v4l2_ctrl_modify_range(d.exposure.minimum, max, d.exposure.step,
                                                  d.exposure.default_value)]
                ELSE d
      done(w) == [pm_runtime_put(w) EXCEPT !.ret = w.ret]
      held(g) == IF g.ret = 0 THEN g
                 ELSE done(set_ctrl_io([g EXCEPT !.ret = 0], env, id, val))
  IN held(pm_runtime_get_if_in_use(ranged))

\* the framework's replay: every control's current value is handed to the
\* handler, in creation order, until one call fails
RECURSIVE __v4l2_ctrl_handler_setup(_, _, _)
__v4l2_ctrl_handler_setup(d, env, i) ==
  LET applied(r) == IF r.ret # 0 THEN r ELSE __v4l2_ctrl_handler_setup(r, env, i + 1)
  IN IF i > Len(CtrlOrder) THEN [d EXCEPT !.ret = 0]
     ELSE applied(set_ctrl(d, env, CtrlOrder[i], d.ctrl_val[CtrlOrder[i]]))

(***************************************************************************)
(* Mode selection.                                                         *)
(***************************************************************************)
\* the kernel's abs() of a u32 expression: the value is read as an int
abs(x) == IF x < 0 THEN NegW(x) ELSE x

get_reso_dist(mode, width, height) ==
  AddW(abs(SubW(mode.width, width)), abs(SubW(mode.height, height)))

\* the loop of find_best_fit from entry i on; best is the 1-based index
RECURSIVE find_best_fit_loop(_, _, _, _, _, _)
find_best_fit_loop(modes, width, height, i, cur_best_fit, cur_best_fit_dist) ==
  IF i > Len(modes) THEN cur_best_fit
  ELSE LET dist == get_reso_dist(modes[i], width, height)
       IN IF cur_best_fit_dist = -1 \/ dist < cur_best_fit_dist
          THEN find_best_fit_loop(modes, width, height, i + 1, i, dist)
          ELSE find_best_fit_loop(modes, width, height, i + 1, cur_best_fit, cur_best_fit_dist)

find_best_fit(modes, width, height) ==
  find_best_fit_loop(modes, width, height, 1, 1, -1)

\* the blanking ranges of a mode, as set_fmt, the HDR request and
\* initialize_controls compute them (u32 arithmetic, widened to s64)
hblank_range(mode) ==
  LET h_blank == ZExt(SubW(mode.hts_def, mode.width))
  IN __v4l2_ctrl_modify_range(h_blank, h_blank, 1, h_blank)

\* a vertical-blanking range that ends at VTS_MAX
vblank_range_to_vts_max(mode) ==
  LET vblank_def == ZExt(SubW(mode.vts_def, mode.height))
  IN __v4l2_ctrl_modify_range(vblank_def, ZExt(VTS_MAX), 1, vblank_def)

vblank_range(mode) ==
  LET vblank_def == ZExt(SubW(mode.vts_def, mode.height))
  IN __v4l2_ctrl_modify_range(vblank_def, ZExt(SubW(VTS_MAX, mode.height)), 1, vblank_def)

\* a set_fmt whose TRY request stores into the device like an ACTIVE one
set_fmt_try_stores(modes, d, which, width, height) ==
  LET m == find_best_fit(modes, width, height)
  IN [d EXCEPT !.fmt = << modes[m].width, modes[m].height >>, !.ret = 0,
               !.cur_mode = m, !.hblank = hblank_range(modes[m]),
               !.vblank = vblank_range(modes[m]), !.cur_fps = modes[m].max_fps]

\* modes is the supported_modes table.  A TRY request stores the format in
\* the pad configuration of the caller (CONFIG_VIDEO_V4L2_SUBDEV_API builds).
set_fmt(modes, d, which, width, height) ==
  LET m == find_best_fit(modes, width, height)
      mode == modes[m]
      \* fmt->format.width, fmt->format.height as handed back to the caller
      f == [d EXCEPT !.fmt = << mode.width, mode.height >>, !.ret = 0]
  IN IF which = "TRY" THEN f
     ELSE [f EXCEPT !.cur_mode = m, !.hblank = hblank_range(mode),
                    !.vblank = vblank_range(mode), !.cur_fps = mode.max_fps]

\* first table entry with the current size and the requested hdr mode; 0: none
RECURSIVE hdr_scan(_, _, _, _, _)
hdr_scan(modes, w, h, hdr_mode, i) ==
  IF i > Len(modes) THEN 0
  ELSE IF w = modes[i].width /\ h = modes[i].height /\ modes[i].hdr_mode = hdr_mode
       THEN i
       ELSE hdr_scan(modes, w, h, hdr_mode, i + 1)

\* an HDR request that falls back to the first table entry when none matches
ioctl_set_hdr_cfg_default(modes, d, hdr_mode) ==
  LET i == hdr_scan(modes, modes[d.cur_mode].width, modes[d.cur_mode].height, hdr_mode, 1)
      j == IF i = 0 THEN 1 ELSE i
  IN [d EXCEPT !.cur_mode = j, !.hblank = hblank_range(modes[j]),
               !.vblank = vblank_range(modes[j]), !.ret = IF i = 0 THEN -EINVAL ELSE 0]

ioctl_set_hdr_cfg(modes, d, hdr_mode) ==
  LET i == hdr_scan(modes, modes[d.cur_mode].width, modes[d.cur_mode].height, hdr_mode, 1)
  IN IF i = 0 THEN [d EXCEPT !.ret = -EINVAL]
     ELSE [d EXCEPT !.cur_mode = i, !.hblank = hblank_range(modes[i]),
                    !.vblank = vblank_range(modes[i]), !.ret = 0]

ioctl_set_quick_stream(d, env, stream) ==
  IF stream # 0
  THEN write_reg(d, env, REG_CTRL_MODE, REG_VALUE_08BIT, MODE_STREAMING)
  ELSE write_reg(d, env, REG_CTRL_MODE, REG_VALUE_08BIT, MODE_SW_STANDBY)

(***************************************************************************)
(* Streaming and power entry points.                                       *)
(***************************************************************************)
__start_stream(d, env) ==
  LET replayed(h) == IF h.ret # 0 THEN h
                     ELSE write_reg(h, env, REG_CTRL_MODE, REG_VALUE_08BIT, MODE_STREAMING)
      \* In case these controls are set before streaming
      programmed(a) == IF a.ret # 0 THEN a
                       ELSE replayed(__v4l2_ctrl_handler_setup(a, env, 1))
  IN programmed(write_array(d.chip, d, env, supported_modes(d.chip)[d.cur_mode].reg_list))

\* a stop that leaves the chip streaming
__stop_stream_streaming(d, env) ==
  write_reg(d, env, REG_CTRL_MODE, REG_VALUE_08BIT, MODE_STREAMING)

__stop_stream(d, env) ==
  write_reg(d, env, REG_CTRL_MODE, REG_VALUE_08BIT, MODE_SW_STANDBY)

\* ox03j10 reads two status registers after a successful start; the results
\* are only printed
after_start(d, env) ==
  IF d.chip = "ox03j10"
  THEN read_reg(read_reg(d, env, 6482, REG_VALUE_08BIT), env, 8624, REG_VALUE_08BIT)
  ELSE d

\* a start that takes no power reference
s_stream_unpowered(d, env, on) ==
  LET started(s) == IF s.ret # 0 THEN s ELSE [s EXCEPT !.streaming = on]
      stopped(s) == [pm_runtime_put(s) EXCEPT !.streaming = on, !.ret = 0]
  IN IF on = d.streaming THEN [d EXCEPT !.ret = 0]
     ELSE IF on THEN started(__start_stream(d, env))
     ELSE stopped(__stop_stream(d, env))

\* no early return when the flag already has the requested value
s_stream_restart(d, env, on) ==
  LET started(s) == IF s.ret # 0 THEN [pm_runtime_put(s) EXCEPT !.ret = s.ret]
                    ELSE [after_start(s, env) EXCEPT !.streaming = on, !.ret = s.ret]
      resumed(g) == IF g.ret < 0 THEN [pm_runtime_put_noidle(g) EXCEPT !.ret = g.ret]
                    ELSE started(__start_stream(g, env))
      stopped(s) == [pm_runtime_put(s) EXCEPT !.streaming = on, !.ret = 0]
  IN IF on THEN resumed(pm_runtime_get_sync(d, env))
     ELSE stopped(__stop_stream(d, env))

\* a failed start keeps its power reference
s_stream_leak(d, env, on) ==
  LET started(s) == IF s.ret # 0 THEN s
                    ELSE [after_start(s, env) EXCEPT !.streaming = on, !.ret = s.ret]
      resumed(g) == IF g.ret < 0 THEN [pm_runtime_put_noidle(g) EXCEPT !.ret = g.ret]
                    ELSE started(__start_stream(g, env))
      stopped(s) == [pm_runtime_put(s) EXCEPT !.streaming = on, !.ret = 0]
  IN IF on = d.streaming THEN [d EXCEPT !.ret = 0]
     ELSE IF on THEN resumed(pm_runtime_get_sync(d, env))
     ELSE stopped(__stop_stream(d, env))

s_stream(d, env, on) ==
  LET started(s) == IF s.ret # 0 THEN [pm_runtime_put(s) EXCEPT !.ret = s.ret]
                    ELSE [after_start(s, env) EXCEPT !.streaming = on, !.ret = s.ret]
      resumed(g) == IF g.ret < 0 THEN [pm_runtime_put_noidle(g) EXCEPT !.ret = g.ret]
                    ELSE started(__start_stream(g, env))
      stopped(s) == [pm_runtime_put(s) EXCEPT !.streaming = on, !.ret = 0]
  IN IF on = d.streaming THEN [d EXCEPT !.ret = 0]
     ELSE IF on THEN resumed(pm_runtime_get_sync(d, env))
     ELSE stopped(__stop_stream(d, env))

\* a power request that does not compare with the power_on flag
s_power_unconditional(d, env, on) ==
  LET written(w) == IF w.ret # 0 THEN [pm_runtime_put_noidle(w) EXCEPT !.ret = w.ret]
                    ELSE [w EXCEPT !.power_on = TRUE]
      resumed(g) == IF g.ret < 0 THEN [pm_runtime_put_noidle(g) EXCEPT !.ret = g.ret]
                    ELSE written(write_array(g.chip, g, env, global_regs(g.chip)))
  IN IF on THEN resumed(pm_runtime_get_sync(d, env))
     ELSE [pm_runtime_put(d) EXCEPT !.power_on = FALSE, !.ret = 0]

s_power(d, env, on) ==
  LET written(w) == IF w.ret # 0 THEN [pm_runtime_put_noidle(w) EXCEPT !.ret = w.ret]
                    ELSE [w EXCEPT !.power_on = TRUE]
      resumed(g) == IF g.ret < 0 THEN [pm_runtime_put_noidle(g) EXCEPT !.ret = g.ret]
                    ELSE written(write_array(g.chip, g, env, global_regs(g.chip)))
  IN IF d.power_on = on THEN [d EXCEPT !.ret = 0]
     ELSE IF on THEN resumed(pm_runtime_get_sync(d, env))
     ELSE [pm_runtime_put(d) EXCEPT !.power_on = FALSE, !.ret = 0]

(***************************************************************************)
(* Attach: the state the probe leaves behind.                              *)
(***************************************************************************)
initialize_controls(mode) ==
  [ hblank   |-> hblank_range(mode),
    vblank   |-> vblank_range(mode),
    exposure |-> [minimum |-> SExt(EXPOSURE_MIN),
                  maximum |-> ZExt(SubW(mode.vts_def, EXPOSURE_MARGIN)),
                  step |-> EXPOSURE_STEP, default_value |-> ZExt(mode.exp_def)],
    \* every control starts at its default value
    val      |-> [id \in CtrlIds |->
                    CASE id = "VBLANK" -> SubW(mode.vts_def, mode.height)
                      [] id = "EXPOSURE" -> mode.exp_def
                      [] id = "ANALOGUE_GAIN" -> 32
                      [] OTHER -> 0] ]

CHIP_ID(c) == IF c = "ov6211" THEN OV6211_CHIP_ID ELSE OX03_CHIP_ID

\* u32 id = 0; ret = read_reg(REG_CHIP_ID, &id); if (id != CHIP_ID) return -ENODEV;
\* the ox03j10 driver then reads the version register and ignores the result
check_sensor_id(d, env) ==
  LET r == IF d.chip = "ov6211"
           THEN read_reg([d EXCEPT !.val = 0], env, OV6211_REG_CHIP_ID, REG_VALUE_08BIT)
           ELSE read_reg([d EXCEPT !.val = 0], env, OX03_REG_CHIP_ID, REG_VALUE_24BIT)
  IN IF r.val # CHIP_ID(d.chip) THEN [r EXCEPT !.ret = -ENODEV]
     ELSE IF d.chip = "ox03j10"
     THEN [read_reg(r, env, OX03J10_REG_CHIP_VERSION, REG_VALUE_08BIT) EXCEPT !.ret = 0]
     ELSE [r EXCEPT !.ret = 0]

\* a probe that leaves by err_free_handler when the identity check fails
probe_no_power_off(d, env) ==
  LET init == initialize_controls(supported_modes(d.chip)[1])
      checked(c) == IF c.ret # 0 THEN c
                    ELSE IF ~env.register_ok THEN [__power_off(c) EXCEPT !.ret = -1]
                    ELSE [c EXCEPT !.runtime_status = "active", !.idle_pending = TRUE]
      powered(p) == IF p.ret # 0 THEN p ELSE checked(check_sensor_id(p, env))
  IN IF ~env.setup_ok THEN [d EXCEPT !.ret = -EINVAL]
     ELSE powered(__power_on([d EXCEPT !.cur_mode = 1, !.exposure = init.exposure,
                                       !.vblank = init.vblank, !.hblank = init.hblank], env))

\* env.setup_ok: the resources were obtained and the controls created;
\* env.register_ok: the media entity and the async subdev were registered.
\* On success the device is active with an idle request queued
\* (pm_runtime_set_active, pm_runtime_enable, pm_runtime_idle).
probe(d, env) ==
  LET init == initialize_controls(supported_modes(d.chip)[1])
      checked(c) == IF c.ret # 0 \/ ~env.register_ok
                    THEN [__power_off(c) EXCEPT !.ret = IF c.ret # 0 THEN c.ret ELSE -1]
                    ELSE [c EXCEPT !.runtime_status = "active", !.idle_pending = TRUE]
      powered(p) == IF p.ret # 0 THEN p ELSE checked(check_sensor_id(p, env))
  IN IF ~env.setup_ok THEN [d EXCEPT !.ret = -EINVAL]
     ELSE powered(__power_on([d EXCEPT !.cur_mode = 1, !.exposure = init.exposure,
                                       !.vblank = init.vblank, !.hblank = init.hblank], env))

\* the power-off of the remove, run whatever the runtime status is
remove_always_powers_off(d) ==
  [__power_off(d) EXCEPT !.runtime_status = "suspended", !.idle_pending = FALSE]

\* ov6211_remove: runtime power management is disabled, which cancels a queued
\* idle request; the hardware is powered off unless it is suspended already;
\* the status is set to suspended.
remove(d) ==
  LET off == IF d.runtime_status # "suspended" THEN __power_off(d) ELSE d
  IN [off EXCEPT !.runtime_status = "suspended", !.idle_pending = FALSE]

(***************************************************************************)
(* Inputs.                                                                 *)
(***************************************************************************)
\* values the framework hands to the handler: inside the advertised range
CtrlVals(id) ==
  CASE id = "VBLANK" -> { vblank.minimum.lo, vblank.maximum.lo }
    [] id = "EXPOSURE" -> { EXPOSURE_MIN, EXPOSURE_MIN + 16 * EXPOSURE_STEP }
    [] id = "ANALOGUE_GAIN" -> { 32 }
    [] id = "TEST_PATTERN" -> { 0, 4 }
    [] id = "HFLIP" -> { 0, 1 }
    [] id = "VFLIP" -> { 0, 1 }

ReadVals == { 0, 255 }

PowerOk == [clk_ok |-> TRUE, reg_ok |-> TRUE, pins_ok |-> TRUE, rate_ok |-> TRUE]

\* the clock or the regulators fail, the pins and the rate are in order
ClockOrRailsFail ==
  { [PowerOk EXCEPT !.clk_ok = FALSE], [PowerOk EXCEPT !.reg_ok = FALSE] }

\* outcomes of the clock and regulator services during a resume
PowerOutcomes == {PowerOk} \cup ClockOrRailsFail

\* every outcome of the four services a power-on calls
AllPowerOutcomes ==
  [clk_ok : BOOLEAN, reg_ok : BOOLEAN, pins_ok : BOOLEAN, rate_ok : BOOLEAN]

\* number of writes of a register program
ProgLen(c, regs) == Len(ProgramWrites(c, regs))

\* Where the first failing transaction of a call may lie: nowhere (0), in the
\* first or last FailWindow writes of the register program of P writes that
\* the call starts with, or at any of the at most T transactions after it.
FailPoints(P, T) ==
  {0} \cup { k \in 1..(P + T) : k <= FailWindow \/ k > P - FailWindow }

Env(P, T, stucks, rds, pws) ==
  { [failAt |-> f, stuck |-> s, rd |-> r, clk_ok |-> p.clk_ok, reg_ok |-> p.reg_ok,
     pins_ok |-> p.pins_ok, rate_ok |-> p.rate_ok] :
      f \in FailPoints(P, T), s \in stucks, r \in rds, p \in pws }

\* a resume, and so the clock and the regulators, is involved only if the
\* device is suspended
Resume == IF runtime_status = "suspended" THEN PowerOutcomes
          ELSE { PowerOk }

(***************************************************************************)
(* Actions.  Calls are taken one at a time: the whole handler runs, and   *)
(* the call then returns to its caller.  s_stream, s_power, set_fmt and    *)
(* the control handler hold the device mutex (the handler lock is the same *)
(* mutex); the ioctl handlers take no lock, and their interleaving with    *)
(* another call is the subject of SpecConc further down.  bus, pm and call *)
(* describe the call that has run and not yet returned.                    *)
(***************************************************************************)
\* the device as a handler sees it when it is entered
Dev ==
  [ chip |-> chip, cur_mode |-> cur_mode, cur_fps |-> cur_fps, streaming |-> streaming,
    power_on |-> power_on, usage_count |-> usage_count,
    runtime_status |-> runtime_status, idle_pending |-> idle_pending, hw |-> hw,
    ctrl_val |-> ctrl_val, exposure |-> exposure, vblank |-> vblank,
    hblank |-> hblank, bus |-> << >>, pm |-> << >>, ret |-> 0, val |-> 0,
    fmt |-> << 0, 0 >>, released |-> -1 ]

NoCall ==
  [ op |-> "none", on |-> FALSE, id |-> "", val |-> 0, ret |-> 0,
    req |-> << 0, 0 >>, fmt |-> << 0, 0 >>, released |-> -1,
    streaming0 |-> FALSE, power_on0 |-> FALSE, usage0 |-> 0, in_use0 |-> FALSE ]

Call(op, on, id, val, ret) ==
  [ op |-> op, on |-> on, id |-> id, val |-> val, ret |-> ret,
    req |-> << 0, 0 >>, fmt |-> << 0, 0 >>, released |-> -1,
    streaming0 |-> streaming, power_on0 |-> power_on, usage0 |-> usage_count,
    in_use0 |-> (runtime_status = "active" /\ usage_count > 0) ]

Commit(r) ==
  /\ cur_mode' = r.cur_mode
  /\ cur_fps' = r.cur_fps
  /\ streaming' = r.streaming
  /\ power_on' = r.power_on
  /\ usage_count' = r.usage_count
  /\ runtime_status' = r.runtime_status
  /\ idle_pending' = r.idle_pending
  /\ hw' = r.hw
  /\ exposure' = r.exposure
  /\ vblank' = r.vblank
  /\ hblank' = r.hblank
  /\ bus' = r.bus
  /\ pm' = r.pm
  /\ UNCHANGED << chip, side >>

SStream ==
  /\ call.op = "none"
  /\ \E on \in BOOLEAN :
     \E env \in Env(ProgLen(chip, supported_modes(chip)[cur_mode].reg_list),
                    Len(CtrlOrder) + 2 + 1 + 2, {FALSE}, ReadVals, Resume) :
       LET r == s_stream(Dev, env, on)
       IN /\ Commit(r)
          /\ UNCHANGED << ctrl_val, deferred >>
          /\ call' = [Call("s_stream", on, "", 0, r.ret) EXCEPT !.released = r.released]

SPowerWith(outcomes) ==
  /\ call.op = "none"
  /\ \E on \in BOOLEAN :
     \E env \in Env(ProgLen(chip, global_regs(chip)), 0, {FALSE}, {0}, outcomes) :
       LET r == s_power(Dev, env, on)
       IN /\ Commit(r)
          /\ UNCHANGED << ctrl_val, deferred >>
          /\ call' = [Call("s_power", on, "", 0, r.ret) EXCEPT !.released = r.released]

SPower == SPowerWith(Resume)

\* the framework sets a control: it calls the handler under the handler lock
\* and keeps the new value if the handler succeeds
SCtrl ==
  /\ call.op = "none"
  /\ \E id \in CtrlIds :
     \E val \in CtrlVals(id) :
     \E env \in IF id \in {"HFLIP", "VFLIP"}
                THEN Env(0, 2, BOOLEAN, ReadVals, { PowerOk })
                ELSE Env(0, 1, {FALSE}, {0}, { PowerOk }) :
       LET r == set_ctrl(Dev, env, id, val)
       IN /\ Commit(r)
          /\ ctrl_val' = IF r.ret = 0 THEN [ctrl_val EXCEPT ![id] = val] ELSE ctrl_val
          /\ deferred' = IF id = "EXPOSURE" /\ r.ret = 0 THEN r.bus = << >> ELSE deferred
          /\ call' = Call("s_ctrl", FALSE, id, val, r.ret)

\* a control id that no case of the handler names
UnhandledIds == { "GAIN" }

\* the handler entered for a control it has no case for (the default branch
\* of both switches); there is no such control in the handler's list, so no
\* value is kept
SCtrlUnhandled ==
  /\ call.op = "none"
  /\ \E id \in UnhandledIds :
     \E val \in {0, 1} :
     \E env \in Env(0, 1, {FALSE}, {0}, { PowerOk }) :
       LET r == set_ctrl(Dev, env, id, val)
       IN /\ Commit(r)
          /\ UNCHANGED << ctrl_val, deferred >>
          /\ call' = Call("s_ctrl", FALSE, id, val, r.ret)

FmtSizes == { <<400, 400>>, <<1920, 1536>> }

\* set_fmt over the table modes, the requested size drawn from sizes
SetFmtOn(modes, sizes) ==
  /\ call.op = "none"
  /\ \E which \in {"TRY", "ACTIVE"} :
     \E sz \in sizes :
       LET r == set_fmt(modes, Dev, which, sz[1], sz[2])
       IN /\ Commit(r)
          /\ UNCHANGED << ctrl_val, deferred >>
          /\ call' = [Call("set_fmt", which = "ACTIVE", "", sz[1], r.ret)
                        EXCEPT !.req = sz, !.fmt = r.fmt]

SetFmt == SetFmtOn(supported_modes(chip), FmtSizes)

HdrModes == {"NO_HDR", "HDR_X2"}

\* ioctl(RKMODULE_SET_HDR_CFG) over the table modes
IoctlSetHdrCfgOn(modes) ==
  /\ call.op = "none"
  /\ \E hdr_mode \in HdrModes :
       LET r == ioctl_set_hdr_cfg(modes, Dev, hdr_mode)
       IN /\ Commit(r)
          /\ UNCHANGED << ctrl_val, deferred >>
          /\ call' = Call("set_hdr_cfg", hdr_mode # "NO_HDR", hdr_mode, 0, r.ret)

IoctlSetHdrCfg == IoctlSetHdrCfgOn(supported_modes(chip))

IoctlQuickStream ==
  /\ call.op = "none"
  /\ \E stream \in {0, 1} :
     \E env \in Env(0, 1, {FALSE}, {0}, { PowerOk }) :
       LET r == ioctl_set_quick_stream(Dev, env, stream)
       IN /\ Commit(r)
          /\ UNCHANGED << ctrl_val, deferred >>
          /\ call' = Call("quick_stream", stream # 0, "", stream, r.ret)

\* the call returns to its caller
Return ==
  /\ call.op # "none"
  /\ call' = NoCall
  /\ bus' = << >>
  /\ pm' = << >>
  /\ UNCHANGED << chip, cur_mode, cur_fps, streaming, power_on, usage_count,
                  runtime_status, idle_pending, hw, ctrl_val, exposure, vblank, hblank,
                  deferred, side >>

\* the queued idle request runs: an unused device is suspended
RuntimeSuspend ==
  /\ idle_pending
  /\ usage_count = 0
  /\ runtime_status = "active"
  /\ hw' = __power_off(Dev).hw
  /\ runtime_status' = "suspended"
  /\ idle_pending' = FALSE
  /\ UNCHANGED << chip, cur_mode, cur_fps, streaming, power_on, usage_count, ctrl_val,
                  exposure, vblank, hblank, bus, pm, call, deferred, side >>

NoFit == [modes |-> << >>, width |-> 0, height |-> 0, best |-> 0]

NoXfer == [step |-> "none"]

\* the probe is not part of the run: the device is taken as attached
NoAttach == [step |-> "none"]

\* calls are taken one at a time
NoConc == [mutex |-> 0]

\* the state the probe leaves behind; mode is the first table entry
AttachedTo(mode) ==
  /\ cur_mode = 1
  /\ cur_fps = mode.max_fps
  /\ streaming = FALSE
  /\ power_on = FALSE
  /\ usage_count = 0
  /\ runtime_status = "suspended"
  /\ idle_pending = FALSE
  /\ hw = [xvclk |-> 0, reset |-> 0, pins |-> "sleep", supplies |-> 0]
  /\ ctrl_val = initialize_controls(mode).val
  /\ exposure = initialize_controls(mode).exposure
  /\ vblank = initialize_controls(mode).vblank
  /\ hblank = initialize_controls(mode).hblank
  /\ bus = << >>
  /\ pm = << >>
  /\ call = NoCall
  /\ deferred = FALSE

Attached == AttachedTo(supported_modes(chip)[1])

Init ==
  /\ chip \in Chips
  /\ Attached
  /\ fit = NoFit
  /\ xfer = NoXfer
  /\ attach = NoAttach
  /\ conc = NoConc

Next ==
  \/ SStream
  \/ SPower
  \/ SCtrl
  \/ SCtrlUnhandled
  \/ SetFmt
  \/ IoctlSetHdrCfg
  \/ IoctlQuickStream
  \/ Return
  \/ RuntimeSuspend

Spec == Init /\ [][Next]_vars

(***************************************************************************)
(* Power requests with every outcome of pinctrl_select_state,              *)
(* clk_set_rate, clk_prepare_enable and regulator_bulk_enable during the   *)
(* resume.                                                                 *)
(***************************************************************************)
SPowerAny ==
  SPowerWith(IF runtime_status = "suspended" THEN AllPowerOutcomes ELSE { PowerOk })

NextPower ==
  \/ SPowerAny
  \/ Return
  \/ RuntimeSuspend

SpecPower == Init /\ [][NextPower]_vars

\* a call that has been made returns, and the power-management work queue
\* runs an idle request that is queued; nothing obliges the user of the
\* device to make a further call
SpecPowerFair == SpecPower /\ WF_vars(Return) /\ WF_vars(RuntimeSuspend)

(***************************************************************************)
(* Mode lookup on its own: find_best_fit applied to tables of one to       *)
(* MaxModes entries and to requested sizes that include the ends of the    *)
(* 32-bit range.  Sizes are 32-bit words, written as the signed integer of *)
(* the same bit pattern (-1 is 0xffffffff).                                *)
(***************************************************************************)
MaxModes == 2

FitSizes == { << 400, 400 >>, << 1920, 1536 >>, << 640, 480 >> }

FitModes == { [width |-> z[1], height |-> z[2]] : z \in FitSizes }

FitTables == UNION { [1..n -> FitModes] : n \in 1..MaxModes }

FitWords == { 0, 400, 640, 1920, 2147483647, -2147483647 - 1, -1 }

InitFit ==
  /\ chip = "ov6211"
  /\ Attached
  /\ fit \in [modes : FitTables, width : FitWords, height : FitWords, best : {0}]
  /\ xfer = NoXfer
  /\ attach = NoAttach
  /\ conc = NoConc

FindBestFit ==
  /\ fit.best = 0
  /\ fit' = [fit EXCEPT !.best = find_best_fit(fit.modes, fit.width, fit.height)]
  /\ UNCHANGED << chip, cur_mode, cur_fps, streaming, power_on, usage_count,
                  runtime_status, idle_pending, hw, ctrl_val, exposure, vblank, hblank,
                  bus, pm, call, deferred, xfer, attach, conc >>

NextFit == FindBestFit

SpecFit == InitFit /\ [][NextFit]_vars

(***************************************************************************)
(* Mode selection over tables of several entries.  Every driver's own      *)
(* table has one entry, so the format and HDR requests are also run over   *)
(* tables of one to MaxModes entries that differ in size and hdr_mode;     *)
(* fit.modes holds the table.                                              *)
(***************************************************************************)
TableModes ==
  { [m EXCEPT !.hdr_mode = h] :
      m \in { supported_modes("ov6211")[1], supported_modes("ox03j10")[1] },
      h \in HdrModes }

Tables == UNION { [1..n -> TableModes] : n \in 1..MaxModes }

InitTable ==
  /\ chip = "ov6211"
  /\ fit \in [modes : Tables, width : {0}, height : {0}, best : {0}]
  /\ AttachedTo(fit.modes[1])
  /\ xfer = NoXfer
  /\ attach = NoAttach
  /\ conc = NoConc

TableSetFmt == SetFmtOn(fit.modes, FitSizes)

TableSetHdrCfg == IoctlSetHdrCfgOn(fit.modes)

NextTable ==
  \/ TableSetFmt
  \/ TableSetHdrCfg
  \/ Return

SpecTable == InitTable /\ [][NextTable]_vars

(***************************************************************************)
(* Register access on its own: one write_reg, then one read_reg of the     *)
(* same register and length to which the chip answers with the value       *)
(* bytes it was sent.  Lengths run from 0 to 5, one past each end of the   *)
(* accepted range; values are 32-bit words written as the signed integer   *)
(* of the same bit pattern.                                                *)
(***************************************************************************)
RegAddrs == { 0, REG_CTRL_MODE, MIRROR_REG, 65535 }

RegLens == 0..5

RegWords == { 0, 1, 255, 256, 4660, 305419896, 2147483647, -2147483647 - 1, -1,
              -2130739455 }

\* the bus fails no transaction, or the first one
RegEnv(f) ==
  [failAt |-> f, stuck |-> FALSE, rd |-> 0, clk_ok |-> TRUE, reg_ok |-> TRUE,
   pins_ok |-> TRUE, rate_ok |-> TRUE]

\* Register programs of up to MaxProg entries and the terminator: writes,
\* delay entries, and terminators before the last one.
MaxProg == 3

ProgEntries == { << REG_CTRL_MODE, 1 >>, << MIRROR_REG, 5 >>, << REG_DELAY, 2 >>,
                 << REG_NULL, 0 >> }

Programs ==
  { p \o << << REG_NULL, 0 >> >> : p \in UNION { [1..n -> ProgEntries] : n \in 0..MaxProg } }

InitReg ==
  /\ chip \in Chips
  /\ Attached
  /\ fit = NoFit
  /\ xfer \in [step : {"args"}, reg : RegAddrs, len : RegLens, val : RegWords]
             \cup [step : {"program"}, regs : Programs, failAt : 0..MaxProg]
  /\ attach = NoAttach
  /\ conc = NoConc

WriteReg ==
  /\ xfer.step = "args"
  /\ \E f \in {0, 1} :
       LET r == write_reg(Dev, RegEnv(f), xfer.reg, xfer.len, xfer.val)
       IN xfer' = [step |-> "written", reg |-> xfer.reg, len |-> xfer.len,
                   val |-> xfer.val, wbus |-> r.bus, wret |-> r.ret]
  /\ UNCHANGED << chip, cur_mode, cur_fps, streaming, power_on, usage_count,
                  runtime_status, idle_pending, hw, ctrl_val, exposure, vblank, hblank,
                  bus, pm, call, deferred, fit, attach, conc >>

\* the value bytes of the write just made (zeroes if nothing was sent)
Echo ==
  IF xfer.wbus = << >> THEN [j \in 1..xfer.len |-> 0]
  ELSE SubSeq(xfer.wbus[1].buf, 3, Len(xfer.wbus[1].buf))

ReadReg ==
  /\ xfer.step = "written"
  /\ \E f \in {0, 1} :
       LET env == [failAt |-> f, stuck |-> FALSE, rd |-> 0, clk_ok |-> TRUE,
                   reg_ok |-> TRUE, data |-> Echo]
           r == read_reg(Dev, env, xfer.reg, xfer.len)
       IN xfer' = [step |-> "read", reg |-> xfer.reg, len |-> xfer.len,
                   val |-> xfer.val, wbus |-> xfer.wbus, wret |-> xfer.wret,
                   rbus |-> r.bus, rret |-> r.ret, rval |-> r.val]
  /\ UNCHANGED << chip, cur_mode, cur_fps, streaming, power_on, usage_count,
                  runtime_status, idle_pending, hw, ctrl_val, exposure, vblank, hblank,
                  bus, pm, call, deferred, fit, attach, conc >>

WriteArray ==
  /\ xfer.step = "program"
  /\ LET r == write_array(chip, Dev, RegEnv(xfer.failAt), xfer.regs)
     IN xfer' = [step |-> "ran", regs |-> xfer.regs, failAt |-> xfer.failAt,
                 bus |-> r.bus, ret |-> r.ret]
  /\ UNCHANGED << chip, cur_mode, cur_fps, streaming, power_on, usage_count,
                  runtime_status, idle_pending, hw, ctrl_val, exposure, vblank, hblank,
                  bus, pm, call, deferred, fit, attach, conc >>

NextReg ==
  \/ WriteReg
  \/ ReadReg
  \/ WriteArray

SpecReg == InitReg /\ [][NextReg]_vars

(***************************************************************************)
(* Attach.  The device starts unbound; the probe runs once, and the        *)
(* operations are available only if it has succeeded.  attach keeps what   *)
(* the probe did: its bus transactions, its power calls, the identity the  *)
(* chip answered with and the value returned.                              *)
(***************************************************************************)
\* what the chip answers to the identity read: the expected word, nothing,
\* the other family's word
ChipIds == { OV6211_CHIP_ID, OX03_CHIP_ID, 0 }

ProbeEnv ==
  { [failAt |-> f, stuck |-> FALSE, rd |-> 0, clk_ok |-> p.clk_ok, reg_ok |-> p.reg_ok,
     pins_ok |-> p.pins_ok, rate_ok |-> p.rate_ok,
     id |-> i, setup_ok |-> s, register_ok |-> g] :
      f \in 0..2, p \in PowerOutcomes, i \in ChipIds, s \in BOOLEAN, g \in BOOLEAN }

InitProbe ==
  /\ chip \in Chips
  /\ Attached
  /\ fit = NoFit
  /\ xfer = NoXfer
  /\ attach = [step |-> "unbound"]
  /\ conc = NoConc

Probe ==
  /\ attach.step = "unbound"
  /\ \E env \in ProbeEnv :
       LET r == probe(Dev, env)
       IN /\ attach' = [step |-> IF r.ret = 0 THEN "bound" ELSE "failed", ret |-> r.ret,
                        bus |-> r.bus, pm |-> r.pm, id |-> env.id]
          /\ cur_mode' = r.cur_mode
          /\ runtime_status' = r.runtime_status
          /\ idle_pending' = r.idle_pending
          /\ hw' = r.hw
          /\ exposure' = r.exposure
          /\ vblank' = r.vblank
          /\ hblank' = r.hblank
  /\ UNCHANGED << chip, cur_fps, streaming, power_on, usage_count, ctrl_val, bus, pm,
                  call, deferred, fit, xfer, conc >>

\* the operations exist once the subdev is registered
Bound == attach.step = "bound" /\ Next

\* the driver is unbound from an attached device; no call is in progress
Remove ==
  /\ attach.step = "bound"
  /\ call.op = "none"
  /\ LET r == remove(Dev)
     IN /\ attach' = [attach EXCEPT !.step = "removed", !.pm = @ \o r.pm]
        /\ hw' = r.hw
        /\ runtime_status' = r.runtime_status
        /\ idle_pending' = r.idle_pending
  /\ UNCHANGED << chip, cur_mode, cur_fps, streaming, power_on, usage_count, ctrl_val,
                  exposure, vblank, hblank, bus, pm, call, deferred, fit, xfer, conc >>

NextProbe ==
  \/ Probe
  \/ Bound
  \/ Remove

SpecProbe == InitProbe /\ [][NextProbe]_vars

(***************************************************************************)
(* Calls on two threads.  A call is a sequence of steps: reads and writes  *)
(* of fields of the device structure, and bus transactions.  The steps     *)
(* before the call takes the mutex (if it takes it at all) and those after *)
(* are taken one at a time, and the steps of the two threads interleave;   *)
(* mutex_lock waits until the mutex is free.  The bus transactions of a    *)
(* call are those the handler makes on a bus that never fails; the fields  *)
(* are stored when the call leaves.  conc.last describes the step taken    *)
(* last: the thread, its entry point, the step, whether the thread held    *)
(* the mutex, and whether the other thread was between two transactions of *)
(* one register sequence.                                                  *)
(***************************************************************************)
Threads == {1, 2}

\* failAt: the transaction of the call that the bus rejects (0: none)
ConcOps ==
  { [op |-> "s_stream", on |-> TRUE, failAt |-> 0],
    [op |-> "s_stream", on |-> TRUE, failAt |-> 1],
    [op |-> "s_stream", on |-> FALSE, failAt |-> 0],
    [op |-> "s_power", on |-> TRUE, failAt |-> 0],
    [op |-> "s_power", on |-> TRUE, failAt |-> 1],
    [op |-> "s_power", on |-> FALSE, failAt |-> 0],
    [op |-> "s_ctrl", on |-> TRUE, failAt |-> 0],
    [op |-> "set_fmt", on |-> TRUE, failAt |-> 0],
    [op |-> "get_fmt", on |-> TRUE, failAt |-> 0],
    [op |-> "open", on |-> TRUE, failAt |-> 0],
    [op |-> "set_hdr_cfg", on |-> FALSE, failAt |-> 0],
    [op |-> "g_frame_interval", on |-> TRUE, failAt |-> 0],
    [op |-> "quick_stream", on |-> TRUE, failAt |-> 0] }

\* the calls that take the device mutex (set_ctrl is called with the handler
\* lock held, which is the device mutex)
Locks(o) == o.op \in {"s_stream", "s_power", "s_ctrl", "set_fmt", "get_fmt", "open"}

Acc(kind, what) == [kind |-> kind, what |-> what, rw |-> "-"]

\* what the call does to the device structure
Result(o, d) ==
  CASE o.op = "s_stream" -> s_stream(d, RegEnv(o.failAt), o.on)
    [] o.op = "s_power" -> s_power(d, RegEnv(o.failAt), o.on)
    [] o.op = "s_ctrl" -> set_ctrl(d, RegEnv(0), "HFLIP", 1)
    [] o.op = "set_fmt" -> set_fmt(supported_modes(d.chip), d, "ACTIVE", 400, 400)
    [] o.op = "set_hdr_cfg" -> ioctl_set_hdr_cfg(supported_modes(d.chip), d, "NO_HDR")
    [] o.op = "quick_stream" -> ioctl_set_quick_stream(d, RegEnv(0), 1)
    [] OTHER -> d

\* the register sequence the k-th of the n transactions of a call belongs to
BusTag(o, d, k, n) ==
  CASE o.op = "s_stream" /\ o.on ->
         IF k <= ProgLen(d.chip, supported_modes(d.chip)[d.cur_mode].reg_list)
         THEN "program"
         ELSE IF k < n THEN "replay" ELSE "enable"
    [] o.op = "s_stream" /\ ~o.on -> "enable"
    [] o.op = "s_power" -> "program"
    [] o.op = "s_ctrl" -> "flip"
    [] OTHER -> "quick"

\* the steps of get_fmt before mutex_lock: const struct mode *mode = cur_mode
Pre(o) == IF o.op = "get_fmt" THEN << Acc("rd", "cur_mode") >> ELSE << >>

\* the steps of the call from mutex_lock on (from entry, if it takes no lock)
Body(o, d) ==
  LET r == Result(o, d)
      io == [k \in 1..Len(r.bus) |->
               [kind |-> "bus", what |-> BusTag(o, d, k, Len(r.bus)), rw |-> r.bus[k].op]]
  IN CASE o.op = "s_stream" ->
            << Acc("rd", "streaming") >> \o io
              \o (IF r.streaming # d.streaming THEN << Acc("wr", "streaming") >> ELSE << >>)
       [] o.op = "s_power" ->
            << Acc("rd", "power_on") >> \o io
              \o (IF r.power_on # d.power_on THEN << Acc("wr", "power_on") >> ELSE << >>)
       [] o.op = "set_fmt" ->
            << Acc("wr", "cur_mode"), Acc("wr", "hblank"), Acc("wr", "vblank"),
               Acc("wr", "cur_fps") >>
       [] o.op = "set_hdr_cfg" ->
            << Acc("rd", "cur_mode") >>
              \o (IF r.ret = 0
                  THEN << Acc("wr", "cur_mode"), Acc("wr", "hblank"), Acc("wr", "vblank") >>
                  ELSE << >>)
       [] o.op = "g_frame_interval" ->
            << Acc("rd", "cur_mode"), Acc("rd", "streaming") >>
              \o (IF d.streaming THEN << Acc("rd", "cur_fps") >> ELSE << >>)
       [] OTHER -> io

Idle == [op |-> "idle"]

NoLast == [t |-> 0, op |-> "", step |-> Acc("none", ""), held |-> TRUE, mid |-> FALSE]

InitConc ==
  /\ chip = "ov6211"
  /\ Attached
  /\ fit = NoFit
  /\ xfer = NoXfer
  /\ attach = NoAttach
  /\ conc = [mutex |-> 0, thr |-> [t \in Threads |-> Idle], last |-> NoLast]

DevUnchanged ==
  UNCHANGED << chip, cur_mode, cur_fps, streaming, power_on, usage_count, runtime_status,
               idle_pending, hw, ctrl_val, exposure, vblank, hblank, bus, pm, call,
               deferred, fit, xfer, attach >>

\* thread t enters an entry point
Invoke(t) ==
  /\ conc.thr[t] = Idle
  /\ \E o \in ConcOps :
       conc' = [conc EXCEPT !.thr[t] = [op |-> o, stage |-> "pre", todo |-> Pre(o),
                                        prev |-> ""]]
  /\ DevUnchanged

\* whether thread u is between two transactions of one register sequence
Mid(u) ==
  /\ conc.thr[u] # Idle
  /\ conc.thr[u].todo # << >>
  /\ Head(conc.thr[u].todo).kind = "bus"
  /\ Head(conc.thr[u].todo).what = conc.thr[u].prev

\* thread t takes its next step
Step(t) ==
  /\ conc.thr[t] # Idle
  /\ conc.thr[t].todo # << >>
  /\ LET e == Head(conc.thr[t].todo)
     IN conc' = [conc EXCEPT
                   !.thr[t].todo = Tail(@),
                   !.thr[t].prev = IF e.kind = "bus" THEN e.what ELSE "",
                   !.last = [t |-> t, op |-> conc.thr[t].op.op, step |-> e,
                             held |-> (conc.mutex = t),
                             mid |-> \E u \in Threads \ {t} : Mid(u)]]
  /\ DevUnchanged

\* mutex_lock, or the entry of a call that takes no lock
Enter(t) ==
  /\ conc.thr[t] # Idle
  /\ conc.thr[t].stage = "pre"
  /\ conc.thr[t].todo = << >>
  /\ Locks(conc.thr[t].op) => conc.mutex = 0
  /\ conc' = [conc EXCEPT !.mutex = IF Locks(conc.thr[t].op) THEN t ELSE @,
                          !.thr[t].stage = "body",
                          !.thr[t].todo = Body(conc.thr[t].op, Dev)]
  /\ DevUnchanged

\* a return that keeps the mutex when the call has failed
Leave_locked_on_error(t) ==
  /\ conc.thr[t] # Idle
  /\ conc.thr[t].stage = "body"
  /\ conc.thr[t].todo = << >>
  /\ LET r == Result(conc.thr[t].op, Dev)
     IN /\ cur_mode' = r.cur_mode
        /\ cur_fps' = r.cur_fps
        /\ streaming' = r.streaming
        /\ power_on' = r.power_on
        /\ usage_count' = r.usage_count
        /\ runtime_status' = r.runtime_status
        /\ idle_pending' = r.idle_pending
        /\ hw' = r.hw
        /\ exposure' = r.exposure
        /\ vblank' = r.vblank
        /\ hblank' = r.hblank
        /\ ctrl_val' = IF conc.thr[t].op.op = "s_ctrl" /\ r.ret = 0
                       THEN [ctrl_val EXCEPT !["HFLIP"] = 1] ELSE ctrl_val
        /\ conc' = [conc EXCEPT !.mutex = IF @ = t /\ r.ret = 0 THEN 0 ELSE @,
                                !.thr[t] = Idle]
  /\ UNCHANGED << chip, bus, pm, call, deferred, fit, xfer, attach >>

\* mutex_unlock and return
Leave(t) ==
  /\ conc.thr[t] # Idle
  /\ conc.thr[t].stage = "body"
  /\ conc.thr[t].todo = << >>
  /\ LET r == Result(conc.thr[t].op, Dev)
     IN /\ cur_mode' = r.cur_mode
        /\ cur_fps' = r.cur_fps
        /\ streaming' = r.streaming
        /\ power_on' = r.power_on
        /\ usage_count' = r.usage_count
        /\ runtime_status' = r.runtime_status
        /\ idle_pending' = r.idle_pending
        /\ hw' = r.hw
        /\ exposure' = r.exposure
        /\ vblank' = r.vblank
        /\ hblank' = r.hblank
        /\ ctrl_val' = IF conc.thr[t].op.op = "s_ctrl" /\ r.ret = 0
                       THEN [ctrl_val EXCEPT !["HFLIP"] = 1] ELSE ctrl_val
  /\ conc' = [conc EXCEPT !.mutex = IF @ = t THEN 0 ELSE @, !.thr[t] = Idle]
  /\ UNCHANGED << chip, bus, pm, call, deferred, fit, xfer, attach >>

NextConc ==
  \E t \in Threads :
    \/ Invoke(t)
    \/ Step(t)
    \/ Enter(t)
    \/ Leave(t)

SpecConc == InitConc /\ [][NextConc]_vars

(***************************************************************************)
(* The flip controls on registers with memory.  The device is streaming;   *)
(* xfer.regs holds the byte of the mirror register (under HFLIP) and of    *)
(* the flip register (under VFLIP): a read returns it and a write that the *)
(* bus accepts replaces it.  xfer.last describes the last flip request     *)
(* (the control, the value, the byte read, the byte written, whether both  *)
(* transactions went through), xfer.prev the one before it.                *)
(***************************************************************************)
FlipIds == { "HFLIP", "VFLIP" }

\* contents of a flip register when the first request arrives
FlipBytes == { 0, 6, 96, 254 }

NoFlip == [id |-> "", e |-> 0, old |-> 0, new |-> 0, ok |-> FALSE]

InitFlip ==
  /\ chip \in Chips
  /\ cur_mode = 1
  /\ cur_fps = supported_modes(chip)[1].max_fps
  /\ streaming = TRUE
  /\ power_on = FALSE
  /\ usage_count = 1
  /\ runtime_status = "active"
  /\ idle_pending = FALSE
  /\ hw = [xvclk |-> 1, reset |-> 1, pins |-> "default", supplies |-> 1]
  /\ ctrl_val = initialize_controls(supported_modes(chip)[1]).val
  /\ exposure = initialize_controls(supported_modes(chip)[1]).exposure
  /\ vblank = initialize_controls(supported_modes(chip)[1]).vblank
  /\ hblank = initialize_controls(supported_modes(chip)[1]).hblank
  /\ bus = << >>
  /\ pm = << >>
  /\ call = NoCall
  /\ deferred = FALSE
  /\ fit = NoFit
  /\ xfer \in [step : {"flip"}, regs : [FlipIds -> FlipBytes], prev : {NoFlip},
               last : {NoFlip}]
  /\ attach = NoAttach
  /\ conc = NoConc

\* the framework sets a flip control to a new value
SetFlip ==
  /\ call.op = "none"
  /\ \E id \in FlipIds :
     \E e \in {0, 1} \ {ctrl_val[id]} :
     \E f \in 0..2 :
       LET env == [failAt |-> f, stuck |-> FALSE, rd |-> xfer.regs[id],
                   clk_ok |-> TRUE, reg_ok |-> TRUE]
           r   == set_ctrl(Dev, env, id, e)
           wrote == Len(r.bus) = 2 /\ r.bus[2].ok
           new == IF wrote THEN r.bus[2].buf[3] ELSE xfer.regs[id]
       IN /\ usage_count' = r.usage_count
          /\ idle_pending' = r.idle_pending
          /\ exposure' = r.exposure
          /\ bus' = r.bus
          /\ pm' = r.pm
          /\ ctrl_val' = IF r.ret = 0 THEN [ctrl_val EXCEPT ![id] = e] ELSE ctrl_val
          /\ call' = Call("s_ctrl", FALSE, id, e, r.ret)
          /\ xfer' = [xfer EXCEPT !.regs[id] = new,
                                  !.prev = xfer.last,
                                  !.last = [id |-> id, e |-> e, old |-> xfer.regs[id],
                                            new |-> new, ok |-> r.ret = 0]]
  /\ UNCHANGED << chip, cur_mode, cur_fps, streaming, power_on, runtime_status, hw,
                  vblank, hblank, deferred, fit, attach, conc >>

NextFlip ==
  \/ SetFlip
  \/ Return

SpecFlip == InitFlip /\ [][NextFlip]_vars

(***************************************************************************)
(* Properties.  They are stated on the state a call leaves behind: call    *)
(* holds the entry point, its arguments, its return value and the state at *)
(* entry; bus and pm hold what the call did.                               *)
(***************************************************************************)
\* a write of the one-byte value v to the mode-control register 0x0100
CtrlModeWrite(t, v) == t.op = "w" /\ t.len = 1 /\ t.buf = << 1, 0, v >>

\* number of writes of the current mode's register program
ModeProgLen == ProgLen(chip, supported_modes(chip)[cur_mode].reg_list)

\* index of the streaming-enable write of a start: after the mode program
\* and the replay of the six controls (the two flips take a read and a write)
EnableIndex == ModeProgLen + 8 + 1

\* C1, as stated: under any sequence of power and streaming requests,
\* streaming = true implies power_on = true.
C1_StreamingImpliesPowerOn == streaming => power_on

\* C1, amended: under any sequence of power and streaming requests, while
\* streaming is true the driver holds a runtime-power reference and the chip
\* is powered (runtime-active, clock on, reset released); power_on need not
\* be set.
C1_StreamingImpliesPowered ==
  streaming => /\ usage_count >= 1
               /\ runtime_status = "active"
               /\ hw.xvclk = 1 /\ hw.supplies = 1 /\ hw.reset = 1

\* a power-off request has run while the sensor streams
C1_Witness ==
  /\ call.op = "s_power" /\ ~call.on /\ call.power_on0 /\ call.streaming0
  /\ streaming /\ ~power_on

\* C3: a streaming request whose argument equals the streaming flag does
\* nothing: no bus transaction (so no mode program), no power reference
\* taken or dropped, the flag unchanged, success returned.
C3_RedundantStreamIsNoop ==
  (call.op = "s_stream" /\ call.on = call.streaming0) =>
     /\ bus = << >>
     /\ pm = << >>
     /\ usage_count = call.usage0
     /\ streaming = call.streaming0
     /\ power_on = call.power_on0
     /\ call.ret = 0

\* a start request has run while the sensor was streaming
C3_Witness == call.op = "s_stream" /\ call.on /\ call.streaming0 /\ call.usage0 >= 1

\* a step of a start failed: the resume (nothing reached the bus), or a
\* write of the mode program, a transaction of the replay, or the
\* streaming-enable write
StartStepFailed ==
  \/ bus = << >>
  \/ \E k \in 1..Len(bus) : k <= EnableIndex /\ ~bus[k].ok

\* C4: if a start request fails at any step, streaming stays false, the
\* usage count is what it was before the call, and an error is returned.
C4_FailedStartIsUndone ==
  (call.op = "s_stream" /\ call.on /\ ~call.streaming0 /\ StartStepFailed) =>
     /\ ~streaming
     /\ usage_count = call.usage0
     /\ call.ret # 0

\* a start has failed at its streaming-enable write while a power reference
\* was held already
C4_Witness ==
  /\ call.op = "s_stream" /\ call.on /\ ~call.streaming0
  /\ Len(bus) = EnableIndex /\ ~bus[EnableIndex].ok
  /\ call.usage0 = 1

\* C5: a stop request while streaming issues exactly one bus write, standby
\* to 0x0100, drops the power reference exactly once, clears the streaming
\* flag and returns success whether or not the write succeeded.
C5_StopWhileStreaming ==
  (call.op = "s_stream" /\ ~call.on /\ call.streaming0) =>
     /\ Len(bus) = 1
     /\ CtrlModeWrite(bus[1], 0)
     /\ pm = << "put" >>
     /\ usage_count = call.usage0 - 1
     /\ ~streaming
     /\ call.ret = 0

\* a stop has run whose standby write failed
C5_Witness ==
  /\ call.op = "s_stream" /\ ~call.on /\ call.streaming0
  /\ Len(bus) = 1 /\ ~bus[1].ok /\ call.ret = 0

\* C7: a control set while the device is not actively powered (not
\* runtime-active, or no power reference held) performs no bus transaction,
\* leaves the usage count unchanged and returns success.
C7_UnpoweredSetTouchesNothing ==
  (call.op = "s_ctrl" /\ ~call.in_use0) =>
     /\ bus = << >>
     /\ pm = << >>
     /\ usage_count = call.usage0
     /\ call.ret = 0

\* a flip has been set while the device was resumed but nobody held a
\* power reference
C7_Witness ==
  /\ call.op = "s_ctrl" /\ call.id = "HFLIP" /\ ~call.in_use0
  /\ runtime_status = "active" /\ call.usage0 = 0

\* the transaction is a write to register reg
WritesTo(t, reg) == t.op = "w" /\ t.buf[1] = reg \div 256 /\ t.buf[2] = reg % 256

\* a start request has run and succeeded
StartSucceeded == call.op = "s_stream" /\ call.on /\ ~call.streaming0 /\ call.ret = 0

\* C2: in a successful start the bus sees the mode program in table order,
\* then the replay of the controls, then a single streaming-enable write to
\* 0x0100; no write that sets the streaming-enable bit of 0x0100 precedes
\* the end of the replay.
C2_EnableOnlyAfterReplay ==
  StartSucceeded =>
    LET W == ProgramWrites(chip, supported_modes(chip)[cur_mode].reg_list)
        replay == << REG_VTS, REG_EXPOSURE, REG_ANALOG_GAIN, REG_TEST_PATTERN,
                     MIRROR_REG, MIRROR_REG, FLIP_REG, FLIP_REG >>
    IN /\ Len(bus) >= EnableIndex
       /\ \A k \in 1..Len(W) : bus[k].op = "w" /\ bus[k].buf = << W[k][1] \div 256, W[k][1] % 256, W[k][2] >>
       /\ \A j \in 1..8 : bus[Len(W) + j].buf[1] = replay[j] \div 256
                          /\ bus[Len(W) + j].buf[2] = replay[j] % 256
       /\ CtrlModeWrite(bus[EnableIndex], 1)
       /\ \A k \in 1..(EnableIndex - 1) :
            ~(WritesTo(bus[k], REG_CTRL_MODE) /\ bus[k].buf[3] % 2 = 1)

\* the write set(Exposure, E) issues: three bytes, E shifted left by four,
\* to 0x3500
ExposureWrite(t, E) ==
  /\ t.op = "w" /\ t.len = 3
  /\ t.buf = << 53, 0, ((E * 16) \div 65536) % 256, ((E * 16) \div 256) % 256, (E * 16) % 256 >>

\* C6: set(Exposure, E) while not actively powered touches no bus and
\* succeeds, and the replay of a successful start issues exactly the write
\* (address, width, value) that set(Exposure, E) issues when powered, for
\* the remembered E.
C6_ExposureReplayEquivalence ==
  /\ (call.op = "s_ctrl" /\ call.id = "EXPOSURE" /\ ~call.in_use0) =>
        bus = << >> /\ call.ret = 0 /\ ctrl_val["EXPOSURE"] = call.val /\ deferred
  /\ (call.op = "s_ctrl" /\ call.id = "EXPOSURE" /\ call.in_use0) =>
        Len(bus) = 1 /\ ExposureWrite(bus[1], call.val)
  /\ StartSucceeded =>
        LET R == { k \in (ModeProgLen + 1)..(ModeProgLen + 8) : WritesTo(bus[k], REG_EXPOSURE) }
        IN /\ R = { ModeProgLen + 2 }
           /\ ExposureWrite(bus[ModeProgLen + 2], ctrl_val["EXPOSURE"])
           /\ bus[ModeProgLen + 2].ok

\* a start has succeeded, replaying an exposure that was set while register
\* I/O was skipped
C6_Witness ==
  /\ StartSucceeded /\ deferred
  /\ ctrl_val["EXPOSURE"] = EXPOSURE_MIN
  /\ ExposureWrite(bus[ModeProgLen + 2], EXPOSURE_MIN)

\* the integer n as a 64-bit value
Int64(n) == [hi |-> IF n < 0 THEN -1 ELSE 0, lo |-> n]

\* C8: after set(VBlank, X), in any power state, the advertised maximum of
\* the exposure control is cur_mode.height + X - margin; its minimum, step
\* and default are unchanged.
C8_VBlankMovesExposureMax ==
  (call.op = "s_ctrl" /\ call.id = "VBLANK") =>
     /\ exposure.maximum = Int64(supported_modes(chip)[cur_mode].height + call.val - 20)
     /\ exposure.minimum = Int64(4)
     /\ exposure.step = 15
     /\ exposure.default_value = Int64(supported_modes(chip)[cur_mode].exp_def)

\* the largest vertical blanking has been set while the device was
\* suspended
C8_Witness ==
  /\ call.op = "s_ctrl" /\ call.id = "VBLANK" /\ runtime_status = "suspended"
  /\ call.val = 65535 - supported_modes(chip)[cur_mode].height
  /\ exposure.maximum = Int64(65535 - 20)

\* C9: in every reachable state the v_blank range is
\* [vts - height, 65535 - height] with the lower bound as default, and the
\* minimum, maximum and default of h_blank all equal hts - width (of the
\* current mode).
C9_BlankingRanges ==
  LET mode == supported_modes(chip)[cur_mode]
  IN /\ vblank.minimum = Int64(mode.vts_def - mode.height)
     /\ vblank.maximum = Int64(65535 - mode.height)
     /\ vblank.default_value = vblank.minimum
     /\ hblank.minimum = Int64(mode.hts_def - mode.width)
     /\ hblank.maximum = hblank.minimum
     /\ hblank.default_value = hblank.minimum

\* the unsigned value of a 32-bit word, in two 16-bit halves
Halves(w) == IF w >= 0 THEN << w \div 65536, w % 65536 >>
             ELSE << (w \div 65536) + 65536, w % 65536 >>

\* |a - b| of two unsigned 32-bit values, as a number of 65536s and a rest
HalvesAbsDiff(a, b) ==
  LET x == Halves(a)
      y == Halves(b)
      big == IF x[1] > y[1] \/ (x[1] = y[1] /\ x[2] >= y[2]) THEN x ELSE y
      small == IF big = x THEN y ELSE x
  IN IF big[2] >= small[2] THEN << big[1] - small[1], big[2] - small[2] >>
     ELSE << big[1] - small[1] - 1, big[2] + 65536 - small[2] >>

\* the Manhattan distance between a table entry and a requested size
L1(mode, width, height) ==
  LET p == HalvesAbsDiff(mode.width, width)
      q == HalvesAbsDiff(mode.height, height)
  IN << p[1] + q[1] + ((p[2] + q[2]) \div 65536), (p[2] + q[2]) % 65536 >>

Shorter(p, q) == p[1] < q[1] \/ (p[1] = q[1] /\ p[2] < q[2])

C12_HdrRequest ==
  [][ (call.op = "none" /\ call'.op = "set_hdr_cfg") =>
        LET cur == fit.modes[cur_mode]
            matches == { i \in 1..Len(fit.modes) :
                           /\ fit.modes[i].width = cur.width
                           /\ fit.modes[i].height = cur.height
                           /\ fit.modes[i].hdr_mode = call'.id }
        IN IF matches = { }
           THEN /\ call'.ret = -EINVAL
                /\ UNCHANGED << cur_mode, hblank, vblank >>
           ELSE /\ call'.ret = 0
                /\ cur_mode' \in matches
                /\ \A i \in matches : cur_mode' <= i ]_vars

\* an HDR request has failed while the second table entry was current
C12_WitnessNoMatch ==
  call.op = "set_hdr_cfg" /\ call.ret = -EINVAL /\ cur_mode = 2

\* C16: write_reg and read_reg called with a length of 0 or of more than 4
\* return -EINVAL and put nothing on the bus.
C16_BadLengthRejected ==
  (xfer.step \in {"written", "read"} /\ (xfer.len = 0 \/ xfer.len > 4)) =>
    /\ xfer.wret = -EINVAL /\ xfer.wbus = << >>
    /\ xfer.step = "read" => (xfer.rret = -EINVAL /\ xfer.rbus = << >>)

\* the four bytes of a 32-bit word, most significant first
WordBytes(v) ==
  LET h == Halves(v)
  IN << h[1] \div 256, h[1] % 256, h[2] \div 256, h[2] % 256 >>

\* v mod 2^(8w) as a 32-bit word
LowBytes(v, w) ==
  CASE w = 1 -> v % 256
    [] w = 2 -> v % 65536
    [] w = 3 -> v % 16777216
    [] w = 4 -> v

\* C17: for a length w of 1 to 4, write_reg sends one message of the two
\* address bytes, high byte first, followed by exactly w value bytes, most
\* significant first, and read_reg decodes those w bytes to v mod 2^(8w).
C17_WriteReadRoundTrip ==
  (xfer.step \in {"written", "read"} /\ xfer.len \in 1..4) =>
    /\ Len(xfer.wbus) = 1
    /\ xfer.wbus[1].op = "w"
    /\ xfer.wbus[1].buf =
         << xfer.reg \div 256, xfer.reg % 256 >>
           \o SubSeq(WordBytes(xfer.val), 5 - xfer.len, 4)
    /\ (xfer.step = "read" /\ xfer.rret = 0) => xfer.rval = LowBytes(xfer.val, xfer.len)

\* a four-byte value with bit 31 set, and a two-byte cut of a longer value,
\* have been written and read back
C17_Witness ==
  /\ xfer.step = "read" /\ xfer.rret = 0 /\ xfer.wret = 0
  /\ xfer.len = 4 /\ xfer.val = -2130739455 /\ xfer.rval = xfer.val

\* the entries of a program that are to be written: those before the first
\* terminator, without the delay entries that the ox03j10 and ox03c10 loops
\* sleep on (the ov6211 loop writes an entry of that address like any other)
RECURSIVE OpsToWrite(_, _, _)
OpsToWrite(c, regs, i) ==
  IF regs[i][1] = REG_NULL THEN << >>
  ELSE IF c # "ov6211" /\ regs[i][1] = REG_DELAY THEN OpsToWrite(c, regs, i + 1)
       ELSE << regs[i] >> \o OpsToWrite(c, regs, i + 1)

\* C18: write_array issues the writes of a program in table order, each at
\* most once and none past the terminator; the first write that fails is the
\* last one issued, it is not issued again, and its error is returned; if
\* no write fails every entry before the terminator is written exactly once
\* and 0 is returned.
C18_ProgramRunsInOrder ==
  xfer.step = "ran" =>
    LET ops == OpsToWrite(chip, xfer.regs, 1)
        n   == Len(xfer.bus)
    IN /\ n <= Len(ops)
       /\ \A k \in 1..n :
            /\ xfer.bus[k].op = "w"
            /\ xfer.bus[k].buf = << ops[k][1] \div 256, ops[k][1] % 256, ops[k][2] >>
            /\ k < n => xfer.bus[k].ok
       /\ IF xfer.failAt \in 1..Len(ops)
          THEN n = xfer.failAt /\ ~xfer.bus[n].ok /\ xfer.ret = -EIO
          ELSE n = Len(ops) /\ xfer.ret = 0

\* the first of three writes has failed
C18_Witness ==
  /\ xfer.step = "ran" /\ xfer.ret = -EIO /\ Len(xfer.bus) = 1
  /\ Len(OpsToWrite(chip, xfer.regs, 1)) = 3

\* whether the call has entered e in its log of power calls
Did(e) == \E i \in 1..Len(pm) : pm[i] = e

\* C20: a power-on that fails at clk_prepare_enable never enables the
\* regulators and never releases the reset line; one that fails at
\* regulator_bulk_enable disables the clock again; either way the call
\* returns an error and the clock and the regulators are left disabled.
C20_FailedPowerOnRollsBack ==
  /\ Did("clk_prepare_enable:fail") =>
       /\ ~Did("regulator_bulk_enable") /\ ~Did("regulator_bulk_enable:fail")
       /\ ~Did("reset=1")
       /\ call.ret < 0 /\ hw.xvclk = 0 /\ hw.supplies = 0
  /\ Did("regulator_bulk_enable:fail") =>
       /\ \A i \in 1..Len(pm) :
            pm[i] = "regulator_bulk_enable:fail" =>
              (i < Len(pm) /\ pm[i + 1] = "clk_disable_unprepare")
       /\ ~Did("reset=1")
       /\ call.ret < 0 /\ hw.xvclk = 0 /\ hw.supplies = 0

\* a stream-on has failed because the regulators could not be enabled
C20_Witness ==
  call.op = "s_stream" /\ Did("regulator_bulk_enable:fail") /\ hw.reset = 0

\* whether the probe has entered e in its log of power calls
ProbeDid(e) == \E i \in 1..Len(attach.pm) : attach.pm[i] = e

\* C19: in the probe the identity read is the first bus transaction after
\* the power-on and the probe writes no register; if that read fails or
\* answers with a value other than CHIP_ID the probe fails, no register is
\* ever written, and the power-off sequence has run: the clock and the
\* regulators are off.
C19_IdentityCheckGatesAttach ==
  attach.step \in {"bound", "failed"} =>
    /\ \A k \in 1..Len(attach.bus) : attach.bus[k].op = "r"
    /\ ProbeDid("reset=1") =>
         /\ attach.bus # << >>
         /\ attach.bus[1].buf = IF chip = "ov6211"
                                THEN << OV6211_REG_CHIP_ID \div 256, OV6211_REG_CHIP_ID % 256 >>
                                ELSE << OX03_REG_CHIP_ID \div 256, OX03_REG_CHIP_ID % 256 >>
    /\ (ProbeDid("reset=1") /\ (~attach.bus[1].ok \/ attach.id # CHIP_ID(chip))) =>
         /\ attach.step = "failed" /\ attach.ret # 0
         /\ bus = << >> /\ call.op = "none"
         /\ ProbeDid("regulator_bulk_disable")
         /\ attach.pm[Len(attach.pm) - 2] = "clk_disable_unprepare"
         /\ hw.xvclk = 0 /\ hw.supplies = 0

\* the chip has answered the identity read with another chip's word
C19_Witness ==
  /\ attach.step = "failed" /\ attach.bus # << >> /\ attach.bus[1].ok
  /\ attach.id # CHIP_ID(chip) /\ attach.id # 0

\* C15: once the device is attached, a call puts a transaction on the bus
\* only while the device is runtime-active and a runtime-power reference is
\* held for it: the device was active and in use when the call began, or
\* the call itself took a reference and resumed the device first.
C15_BusOnlyWhilePowered ==
  bus # << >> => (call.in_use0 \/ Did("get_sync") \/ Did("get_if_in_use"))

\* C13: every read and every write of cur_mode, streaming, power_on, cur_fps
\* and the blanking ranges made by an entry point is made while the calling
\* thread holds the device mutex.
C13_AccessUnderLock ==
  conc.last.step.kind \in {"rd", "wr"} => conc.last.held

\* C14: no call writes to the bus while a call on the other thread is
\* between two transactions of one register sequence (mode program, control
\* replay, stream-enable write, mirror/flip read and write).
C14_NoInterleavedWrites ==
  ~(conc.last.step.kind = "bus" /\ conc.last.step.rw = "w" /\ conc.last.mid)

\* the position of the power call e in the log of the call (0: not made)
At(e) == IF Did(e) THEN CHOOSE i \in 1..Len(pm) : pm[i] = e ELSE 0

\* C21: in a power-on that succeeds the clock is enabled, then the reset
\* line is asserted, then the regulators are enabled, then the reset line
\* is released; the reset line is never released before the regulators are
\* enabled, and no bus transaction is made before the reset line is
\* released.
C21_PowerOnOrder ==
  /\ Did("reset=1") =>
       /\ 0 < At("clk_prepare_enable")
       /\ At("clk_prepare_enable") < At("reset=0")
       /\ At("reset=0") < At("regulator_bulk_enable")
       /\ At("regulator_bulk_enable") < At("reset=1")
       /\ call.released = 0
  /\ ((Did("clk_prepare_enable") \/ Did("clk_prepare_enable:fail"))
        /\ ~Did("reset=1")) => bus = << >>

\* a stream-on has resumed the device and gone on to write registers
C21_Witness ==
  /\ call.op = "s_stream" /\ Did("reset=1") /\ call.released = 0
  /\ bus # << >> /\ hw.reset = 1 /\ hw.supplies = 1

\* C22: whatever the control, the value and the outcome of the bus, the
\* handler drops the runtime-power reference exactly once if it took one and
\* never if it did not, so the usage count after the call is the count
\* before it; it returns an error exactly if a bus transaction it made failed.
C22_SetBalancesReference ==
  call.op = "s_ctrl" =>
    /\ pm = IF call.in_use0 THEN << "get_if_in_use", "put" >> ELSE << >>
    /\ usage_count = call.usage0
    /\ (call.ret # 0) <=> (\E i \in 1..Len(bus) : ~bus[i].ok)

\* a flip request whose read fails and whose write goes through: the
\* reference is dropped and the error is returned
C22_Witness ==
  /\ call.op = "s_ctrl" /\ call.id \in {"HFLIP", "VFLIP"}
  /\ Len(bus) = 2 /\ ~bus[1].ok /\ bus[2].ok
  /\ call.ret # 0 /\ pm = << "get_if_in_use", "put" >> /\ usage_count = call.usage0

\* C23: a set of a control the chip does not implement makes no bus
\* transaction, changes no control range and no device state, and returns
\* success, whether the device is powered or not.
C23_UnhandledControlIsNoOp ==
  [][ (call.op = "none" /\ call'.op = "s_ctrl" /\ call'.id \notin CtrlIds) =>
        /\ bus' = << >>
        /\ call'.ret = 0
        /\ UNCHANGED << exposure, vblank, hblank, ctrl_val >>
        /\ UNCHANGED << cur_mode, cur_fps, streaming, power_on, usage_count,
                        runtime_status, idle_pending, hw >> ]_vars

\* the unimplemented control set on a powered device: the reference was
\* taken and dropped around the default branch
C23_Witness ==
  /\ call.op = "s_ctrl" /\ call.id \in UnhandledIds /\ call.in_use0
  /\ pm = << "get_if_in_use", "put" >> /\ bus = << >> /\ call.ret = 0

\* the unimplemented control set on a suspended device
C23_WitnessUnpowered ==
  /\ call.op = "s_ctrl" /\ call.id \in UnhandledIds /\ ~call.in_use0
  /\ runtime_status = "suspended" /\ pm = << >> /\ call.ret = 0

\* a write of the two bytes of v, to whatever register
GainWrite(t, v) ==
  t.op = "w" /\ t.len = 2 /\ Len(t.buf) = 4 /\ t.buf[3] = v \div 256 /\ t.buf[4] = v % 256

\* C24: on the ox03c10 and ox03j10 a gain above 1984 is written as analog
\* gain 1984 and digital gain requested*1024/1984, a gain of at most 1984 as
\* analog gain = requested and digital gain 1024; the analog value is masked
\* to 13 bits and the digital value to 14 bits.
C24_HdrGainSplit ==
  (/\ chip \in {"ox03c10", "ox03j10"}
   /\ call.op = "s_ctrl" /\ call.id = "ANALOGUE_GAIN" /\ call.in_use0 /\ call.ret = 0) =>
    LET again == IF call.val > 1984 THEN 1984 ELSE call.val
        dgain == IF call.val > 1984 THEN (call.val * 1024) \div 1984 ELSE 1024
    IN \E i, j \in 1..Len(bus) :
         /\ i # j
         /\ GainWrite(bus[i], BitAnd(again, 8191))
         /\ GainWrite(bus[j], BitAnd(dgain, 16383))

\* C25: a flip request reads the register byte old and writes old | M to
\* enable and old & ~M to disable, with one and the same mask M for both;
\* so an enable followed by a disable gives back the byte the register held
\* if its M bits were clear.
C25_FlipSetsAndClearsOneMask ==
  (/\ xfer.step = "flip"
   /\ xfer.prev.ok /\ xfer.last.ok /\ xfer.prev.id = xfer.last.id
   /\ xfer.prev.e = 1 /\ xfer.last.e = 0 /\ xfer.last.old = xfer.prev.new) =>
    \E M \in 1..255 :
      /\ xfer.prev.new = BitOr(xfer.prev.old, M)
      /\ xfer.last.new = BitAnd(xfer.last.old, 255 - M)
      /\ BitAnd(xfer.prev.old, M) = 0 => xfer.last.new = xfer.prev.old

\* C26: a power request for the state the power_on flag already has does
\* nothing: it takes and drops no reference, makes no bus transaction and
\* succeeds.  So power requests hold one reference while power_on is set
\* and none while it is clear, however often they are repeated.
C26_PowerRequestIdempotent ==
  /\ (call.op = "s_power" /\ call.power_on0 = call.on) =>
       /\ bus = << >> /\ pm = << >> /\ call.ret = 0
       /\ usage_count = call.usage0 /\ power_on = call.on
  /\ usage_count - (IF streaming THEN 1 ELSE 0) = (IF power_on THEN 1 ELSE 0)

\* a power-on request on a device that is powered on already
C26_Witness ==
  /\ call.op = "s_power" /\ call.on /\ call.power_on0 /\ power_on
  /\ usage_count = call.usage0 /\ pm = << >>

\* a power-off request on a device that is powered off already
C26_WitnessOff ==
  /\ call.op = "s_power" /\ ~call.on /\ ~call.power_on0 /\ ~power_on
  /\ usage_count = 0 /\ pm = << >>

\* C27: in every reachable state the maximum of the exposure control is
\* cur_mode.height + the value of the vertical-blanking control - margin.
C27_ExposureMaxFollowsVBlank ==
  exposure.maximum =
    Int64(supported_modes(chip)[cur_mode].height + ctrl_val["VBLANK"] - 20)

\* C28: set(Exposure, E) on a powered device makes exactly one bus
\* transaction: a write of three bytes to 0x3500 with the value E * 16.
C28_ExposureWrite ==
  (call.op = "s_ctrl" /\ call.id = "EXPOSURE" /\ call.in_use0) =>
    /\ Len(bus) = 1
    /\ bus[1].op = "w" /\ bus[1].len = 3
    /\ bus[1].buf = << 13568 \div 256, 13568 % 256,
                       ((call.val * 16) \div 65536) % 256,
                       ((call.val * 16) \div 256) % 256, (call.val * 16) % 256 >>

\* an exposure of 244 lines set while streaming: the bytes are 00 0f 40
C28_Witness ==
  /\ call.op = "s_ctrl" /\ call.id = "EXPOSURE" /\ call.in_use0 /\ call.val = 244
  /\ Len(bus) = 1 /\ bus[1].ok /\ bus[1].buf = << 53, 0, 0, 15, 64 >>

\* C29: set(VBlank, V) on a powered device makes exactly one bus
\* transaction: a write of two bytes to the VTS register 0x380e with the
\* value V + cur_mode.height.
C29_VBlankWrite ==
  (call.op = "s_ctrl" /\ call.id = "VBLANK" /\ call.in_use0) =>
    LET vts == call.val + supported_modes(chip)[cur_mode].height
    IN /\ Len(bus) = 1
       /\ bus[1].op = "w" /\ bus[1].len = 2
       /\ bus[1].buf = << 14350 \div 256, 14350 % 256, (vts \div 256) % 256, vts % 256 >>

\* the smallest blanking set while streaming: the frame length written is
\* the default vts of the mode
C29_Witness ==
  /\ call.op = "s_ctrl" /\ call.id = "VBLANK" /\ call.in_use0
  /\ call.val = supported_modes(chip)[cur_mode].vts_def - supported_modes(chip)[cur_mode].height
  /\ Len(bus) = 1 /\ bus[1].ok
  /\ bus[1].buf[3] * 256 + bus[1].buf[4] = supported_modes(chip)[cur_mode].vts_def

\* C30: set(TestPattern, N) on a powered device writes one byte to the
\* test-pattern register: 0 when N is 0, (N - 1) | 0x80 otherwise.
C30_TestPatternWrite ==
  (call.op = "s_ctrl" /\ call.id = "TEST_PATTERN" /\ call.in_use0) =>
    /\ Len(bus) = 1
    /\ bus[1].op = "w" /\ bus[1].len = 1
    /\ bus[1].buf = << 24064 \div 256, 24064 % 256,
                       IF call.val = 0 THEN 0 ELSE 128 + (call.val - 1) >>

\* the fourth pattern selected while streaming: the byte written is 0x83
C30_Witness ==
  /\ call.op = "s_ctrl" /\ call.id = "TEST_PATTERN" /\ call.in_use0 /\ call.val = 4
  /\ Len(bus) = 1 /\ bus[1].ok /\ bus[1].buf = << 94, 0, 131 >>

\* the program entry e is not a delay
NotDelay(e) == e[1] # 65534

\* C31: in every driver an entry of a register program whose address is
\* the delay sentinel 0xFFFE never produces a bus write: write_array sleeps
\* and goes on with the next entry.
C31_DelayEntryNeverWritten ==
  xfer.step = "ran" =>
    /\ \A k \in 1..Len(xfer.bus) : ~WritesTo(xfer.bus[k], 65534)
    /\ (xfer.failAt = 0) =>
         Len(xfer.bus) = Len(SelectSeq(OpsToWrite("ov6211", xfer.regs, 1), NotDelay))

\* C32: a flip request on a powered device reads the register and then
\* writes it, also when the read has failed; it returns an error exactly if
\* the read or the write failed, and it drops its reference in every case.
C32_FlipWritesAfterFailedRead ==
  (call.op = "s_ctrl" /\ call.id \in {"HFLIP", "VFLIP"} /\ call.in_use0) =>
    /\ Len(bus) = 2
    /\ bus[1].op = "r" /\ bus[2].op = "w"
    /\ bus[1].buf = << bus[2].buf[1], bus[2].buf[2] >>
    /\ (call.ret # 0) <=> (~bus[1].ok \/ ~bus[2].ok)
    /\ pm[Len(pm)] = "put" /\ usage_count = call.usage0

\* the read and the write of a flip request have both failed
C32_Witness ==
  /\ call.op = "s_ctrl" /\ call.id \in {"HFLIP", "VFLIP"} /\ call.in_use0
  /\ Len(bus) = 2 /\ ~bus[1].ok /\ ~bus[2].ok /\ call.ret # 0
  /\ pm[Len(pm)] = "put"

\* C33: a power-on succeeds exactly if clk_prepare_enable and
\* regulator_bulk_enable both succeed; a failure to select the pins or to
\* set or verify the clock rate neither ends the sequence nor changes its
\* result.
C33_PowerOnResult ==
  (\/ Did("pinctrl_select_state:fail") \/ Did("clk_set_rate:fail")
   \/ Did("clk_prepare_enable") \/ Did("clk_prepare_enable:fail")) =>
    /\ Did("reset=1") <=>
         (~Did("clk_prepare_enable:fail") /\ ~Did("regulator_bulk_enable:fail"))
    /\ (Did("reset=1") /\ runtime_status = "active") =>
         (hw.xvclk = 1 /\ hw.supplies = 1 /\ hw.reset = 1)
    /\ (call.op = "s_power" /\ ~Did("reset=1")) => call.ret < 0
    /\ (call.op = "s_power" /\ Did("reset=1") /\ bus # << >>
          /\ \A i \in 1..Len(bus) : bus[i].ok) => call.ret = 0

\* the pins could not be selected and the power-on went through
C33_Witness ==
  /\ call.op = "s_power" /\ call.ret = 0 /\ power_on
  /\ Did("pinctrl_select_state:fail") /\ Did("reset=1")
  /\ hw.pins = "sleep" /\ hw.xvclk = 1 /\ hw.supplies = 1

\* the clock rate could not be set and the power-on went through
C33_WitnessRate ==
  /\ call.op = "s_power" /\ call.ret = 0 /\ power_on
  /\ Did("clk_set_rate:fail") /\ Did("reset=1")

\* C34: whenever no call is in progress the usage count of the device is
\* (1 if power_on) + (1 if streaming), after any s_power, s_stream and
\* control-set calls with any outcome of the bus and of the power services;
\* the count is never negative.
C34_UsageCountAccounting ==
  /\ usage_count >= 0
  /\ call.op = "none" =>
       usage_count = Cardinality({ f \in {"power_on", "streaming"} : Dev[f] })

\* powered on and streaming, no call in progress: two references
C34_Witness ==
  /\ call.op = "none" /\ power_on /\ streaming /\ usage_count = 2

\* the bus transactions of the call that are accepted writes to the
\* mode-control register
ModeWrites == { i \in 1..Len(bus) : bus[i].ok /\ WritesTo(bus[i], REG_CTRL_MODE) }

\* C35: whenever the streaming flag is false and the device is powered, the
\* value last written with success to the mode-control register 0x0100 is
\* not the streaming value (stated on the writes of the call just made).
C35_NotStreamingMeansStandby ==
  (/\ ~streaming /\ runtime_status = "active"
   /\ hw.xvclk = 1 /\ hw.supplies = 1 /\ hw.reset = 1
   /\ ModeWrites # {}) =>
    LET last == CHOOSE i \in ModeWrites : \A j \in ModeWrites : j <= i
    IN bus[last].buf[3] # MODE_STREAMING

\* C36: every mode of every driver's table has hts_def >= width and
\* vts_def >= height, so the unsigned differences used for h_blank and for
\* the lower bound of v_blank do not wrap and are the blanking values.
C36_TotalsCoverActiveArea ==
  /\ \A i \in 1..Len(supported_modes(chip)) :
       /\ supported_modes(chip)[i].hts_def >= supported_modes(chip)[i].width
       /\ supported_modes(chip)[i].vts_def >= supported_modes(chip)[i].height
  /\ hblank.minimum.hi = 0 /\ hblank.minimum.lo >= 0
  /\ vblank.minimum.hi = 0 /\ vblank.minimum.lo >= 0

\* C37: every vertical blanking and every exposure inside its advertised
\* range is written without truncation: v_blank + height is at most 0xFFFF
\* (the two bytes of the VTS register) and exposure * 16 is below 2^24 (the
\* three bytes of the exposure register).
C37_RangesFitRegisters ==
  LET height == supported_modes(chip)[cur_mode].height
  IN /\ vblank.minimum.hi = 0 /\ vblank.maximum.hi = 0
     /\ 0 <= vblank.minimum.lo /\ vblank.minimum.lo <= vblank.maximum.lo
     /\ vblank.maximum.lo + height <= 65535
     /\ exposure.minimum.hi = 0 /\ exposure.maximum.hi = 0
     /\ 0 <= exposure.minimum.lo /\ exposure.minimum.lo <= exposure.maximum.lo
     /\ exposure.maximum.lo * 16 < 16777216
     /\ (call.op = "s_ctrl" /\ call.id = "VBLANK" /\ call.in_use0) =>
          bus[1].buf[3] * 256 + bus[1].buf[4] = call.val + height
     /\ (call.op = "s_ctrl" /\ call.id = "EXPOSURE" /\ call.in_use0) =>
          bus[1].buf[3] * 65536 + bus[1].buf[4] * 256 + bus[1].buf[5] = call.val * 16

\* the largest advertised blanking written while streaming: the frame
\* length is 0xFFFF
C37_Witness ==
  /\ call.op = "s_ctrl" /\ call.id = "VBLANK" /\ call.in_use0
  /\ call.val = vblank.maximum.lo /\ call.ret = 0
  /\ bus[1].buf[3] = 255 /\ bus[1].buf[4] = 255
  /\ exposure.maximum.lo = 65515

\* thread t is inside a call that takes the mutex, past mutex_lock
Inside(t) ==
  conc.thr[t] # Idle /\ conc.thr[t].stage = "body" /\ Locks(conc.thr[t].op)

\* thread t is in mutex_lock and the mutex is taken
Waits(t) ==
  /\ conc.thr[t] # Idle /\ conc.thr[t].stage = "pre" /\ conc.thr[t].todo = << >>
  /\ Locks(conc.thr[t].op) /\ conc.mutex # 0

C39_PowerAlternates ==
  /\ hw.xvclk \in {0, 1}
  /\ hw.supplies \in {0, 1}
  /\ hw.xvclk = hw.supplies
  /\ attach.step = "bound" => (hw.supplies = 1 <=> runtime_status = "active")
  /\ attach.step \in {"unbound", "failed", "removed"} => hw.supplies = 0

\* removed while a power request held the device active: the remove ran the
\* power-off
C39_Witness ==
  /\ attach.step = "removed"
  /\ power_on
  /\ hw.supplies = 0
  /\ attach.pm[Len(attach.pm)] = "regulator_bulk_disable"

\* removed after the runtime suspend: the remove left the hardware alone
C39_WitnessSuspended ==
  /\ attach.step = "removed"
  /\ hw.supplies = 0
  /\ attach.pm[Len(attach.pm)] = "reset=1"

\* a power-on request that resumed the device and then failed in the
\* initialisation register program
InitProgramFailed ==
  /\ call.op = "s_power" /\ call.on /\ ~call.power_on0
  /\ Did("get_sync") /\ Did("reset=1")
  /\ bus # << >> /\ ~bus[Len(bus)].ok

\* the part of C40 about the return: the error is returned, the flag stays
\* clear and the usage count is what it was before the call
C40_FailedPowerRequestRestores ==
  InitProgramFailed =>
    /\ call.ret # 0
    /\ ~power_on
    /\ usage_count = call.usage0
    /\ Did("put_noidle")

\* C40: if a power-on request takes the power reference and the
\* initialisation register program then fails, the request returns the error
\* with power_on clear and the usage count restored, and from then on the
\* hardware is eventually powered off again or has a reference holder.
C40_FailedPowerRequestPowersOff ==
  /\ [](InitProgramFailed =>
          (call.ret # 0 /\ ~power_on /\ usage_count = call.usage0))
  /\ (InitProgramFailed ~> (hw.supplies = 0 \/ usage_count > 0))

\* after the failed request has returned the hardware is powered, nobody
\* holds a reference and no idle request is queued
C40_LeftPowered ==
  /\ call.op = "none"
  /\ hw.supplies = 1 /\ hw.xvclk = 1 /\ runtime_status = "active"
  /\ usage_count = 0 /\ ~power_on /\ ~streaming
  /\ ~idle_pending

====
